---- MODULE Spec2Model ----
(***************************************************************************)
(* heapcheck: the escape-analysis pipeline of cmd/heapcheck (run):         *)
(* parser.Parse turns the compiler's diagnostic text into EscapeInfo       *)
(* records, categorizer.Categorize counts them and gives every heap-bound  *)
(* record a category and a suggestion.                                     *)
(*                                                                         *)
(* Texts are TLA+ strings; the Go string functions and the regular         *)
(* expressions of the parser are operators over their characters.          *)
(***************************************************************************)
EXTENDS Integers, Sequences, FiniteSets, TLC

VARIABLES
    pc,         \* where run (or a direct caller of Categorize) stands
    output,     \* the raw compiler output handed to Parse
    escapes,    \* the []EscapeInfo Parse returned / Categorize is given
    err,        \* the error Parse returned ("" is nil)
    results,    \* the *Results Categorize returned (NoResults before)
    previous,   \* the results of the runs already completed on this output
    config,     \* the flags of the command line: EscapesOnly, FilterPkg
    filtered,   \* the *Results the filter calls of run returned, in call order
    asked,      \* the categories a caller of GetSuggestion has still to ask for
    suggested,  \* the answers GetSuggestion gave, in call order
    usage,      \* which entry point of guard / runtime the test uses
    gpc,        \* where the test (or TestMain) stands
    cfg,        \* the *config (guard) or Options (runtime) of the check
    goroutines, \* the live goroutines of the process: ID -> state and frames
    nextID,     \* the ID the next goroutine gets
    heapAlloc,  \* runtime.MemStats.HeapAlloc, in bytes
    snapshot,   \* the *Snapshot taken (none before)
    retry,      \* i of the retry loop
    diff,       \* the *Diff of the last Compare (nil before)
    leaked,     \* leaked of verifyWithConfig / VerifyTestMain
    errors,     \* the calls of t.Errorf, in order
    comparisons,\* what each Compare of the check saw, in order
    exitCode,   \* what m.Run() returned
    exited,     \* the code given to os.Exit (none before)
    pool,       \* the example WorkerPool: workers, bufferSize; n tasks to submit
    tasks,      \* the channel p.tasks: its buffer and whether it is closed
    poolResults,\* the channel p.results: its buffer and whether it is closed
    workers,    \* where each worker goroutine stands, and the result it holds
    wg,         \* the counter of p.wg
    ctxDone,    \* the context given to Start is cancelled
    mpc,        \* where the goroutine that starts, fills and closes the pool stands
    submitted,  \* the number of tasks submitted
    cpc,        \* where the goroutine that ranges over Results() stands
    received    \* the task IDs of the results it received, in order

\* the state of run
pipelineVars == <<pc, output, escapes, err, results, previous>>

\* what the filters of run work with, beside results
filterVars == <<config, filtered>>

\* a caller of GetSuggestion
suggestVars == <<asked, suggested>>

\* a test under guard or runtime, and the Go runtime it runs on
guardVars == <<usage, gpc, cfg, goroutines, nextID, heapAlloc, snapshot, retry, diff, leaked,
               errors, comparisons, exitCode, exited>>

\* the example worker pool and the goroutines that use it
poolVars == <<pool, tasks, poolResults, workers, wg, ctxDone, mpc, submitted, cpc, received>>

\* what run does not touch
otherVars == <<suggestVars, guardVars, poolVars>>

vars == <<pipelineVars, filterVars, suggestVars, guardVars, poolVars>>

(***************************************************************************)
(* Bounds of the model.                                                    *)
(***************************************************************************)
\* the longest compiler output, in lines
MaxLines == 3
\* the longest record list handed to Categorize directly
MaxRecords == 3
\* how often run is repeated on the same output
MaxRuns == 2
\* the number of bytes the filler character of an over-long line stands for
FillerRun == 65536

(***************************************************************************)
(* Go's strings package and character classes.                             *)
(***************************************************************************)
Char(s, i) == SubSeq(s, i, i)

Suffix(s, i) == SubSeq(s, i, Len(s))

\* strings.HasPrefix, at an offset: s[i:] starts with p (i is 1-based)
HasAt(s, i, p) == i >= 1 /\ i + Len(p) - 1 <= Len(s) /\ SubSeq(s, i, i + Len(p) - 1) = p

strings_HasSuffix(s, p) == Len(p) <= Len(s) /\ HasAt(s, Len(s) - Len(p) + 1, p)

strings_Contains(s, substr) == \E i \in 1..(Len(s) - Len(substr) + 1) : HasAt(s, i, substr)

\* unicode.IsSpace on the ASCII range
IsSpace(c) == c \in {" ", "\t", "\n", "\r", "\f"}

\* \d of the regexp package
IsDigit(c) == c \in {"0", "1", "2", "3", "4", "5", "6", "7", "8", "9"}

UpperToLower ==
    [c \in {"A","B","C","D","E","F","G","H","I","J","K","L","M",
            "N","O","P","Q","R","S","T","U","V","W","X","Y","Z"} |->
        CASE c = "A" -> "a" [] c = "B" -> "b" [] c = "C" -> "c" [] c = "D" -> "d"
          [] c = "E" -> "e" [] c = "F" -> "f" [] c = "G" -> "g" [] c = "H" -> "h"
          [] c = "I" -> "i" [] c = "J" -> "j" [] c = "K" -> "k" [] c = "L" -> "l"
          [] c = "M" -> "m" [] c = "N" -> "n" [] c = "O" -> "o" [] c = "P" -> "p"
          [] c = "Q" -> "q" [] c = "R" -> "r" [] c = "S" -> "s" [] c = "T" -> "t"
          [] c = "U" -> "u" [] c = "V" -> "v" [] c = "W" -> "w" [] c = "X" -> "x"
          [] c = "Y" -> "y" [] c = "Z" -> "z"]

RECURSIVE LowerFrom(_, _)
LowerFrom(s, i) ==
    IF i > Len(s) THEN ""
    ELSE LET c == Char(s, i)
         IN (IF c \in DOMAIN UpperToLower THEN UpperToLower[c] ELSE c) \o LowerFrom(s, i + 1)

strings_ToLower(s) == LowerFrom(s, 1)

\* strings.IndexByte, 1-based and from i on: 0 when c is not in s[i:]
RECURSIVE IndexFrom(_, _, _)
IndexFrom(s, c, i) ==
    IF i > Len(s) THEN 0 ELSE IF Char(s, i) = c THEN i ELSE IndexFrom(s, c, i + 1)

\* strings.TrimSpace: s without its leading and trailing white space
RECURSIVE SkipSpace(_, _, _)
SkipSpace(s, i, step) ==
    IF i >= 1 /\ i <= Len(s) /\ IsSpace(Char(s, i)) THEN SkipSpace(s, i + step, step) ELSE i

strings_TrimSpace(s) == SubSeq(s, SkipSpace(s, 1, 1), SkipSpace(s, Len(s), -1))

RECURSIVE JoinFrom(_, _, _)
JoinFrom(elems, sep, i) ==
    IF i > Len(elems) THEN ""
    ELSE IF i = Len(elems) THEN elems[i]
    ELSE elems[i] \o sep \o JoinFrom(elems, sep, i + 1)

strings_Join(elems, sep) == JoinFrom(elems, sep, 1)

DigitValue(c) ==
    CASE c = "0" -> 0 [] c = "1" -> 1 [] c = "2" -> 2 [] c = "3" -> 3 [] c = "4" -> 4
      [] c = "5" -> 5 [] c = "6" -> 6 [] c = "7" -> 7 [] c = "8" -> 8 [] c = "9" -> 9

\* strconv.Atoi on a string of digits (the only strings \d+ captures)
RECURSIVE AtoiFrom(_, _, _)
AtoiFrom(s, i, acc) ==
    IF i > Len(s) THEN acc ELSE AtoiFrom(s, i + 1, acc * 10 + DigitValue(Char(s, i)))

strconv_Atoi(s) == AtoiFrom(s, 1, 0)

Max(S) == CHOOSE x \in S : \A y \in S : y <= x

(***************************************************************************)
(* The parser's regular expressions.  Every pattern opens with             *)
(* ^(.+):(\d+):(\d+): so a match is decided by where that third colon is.  *)
(***************************************************************************)
\* the index left of the run of digits that ends at i (i itself if s[i] is no digit)
RECURSIVE DigitsBack(_, _)
DigitsBack(s, i) == IF i >= 1 /\ IsDigit(Char(s, i)) THEN DigitsBack(s, i - 1) ELSE i

\* s[1..e] matches ^(.+):(\d+):(\d+): with the last colon at e
IsLocEnd(s, e) ==
    /\ Char(s, e) = ":"
    /\ LET c2 == DigitsBack(s, e - 1)
       IN /\ c2 < e - 1 /\ c2 >= 1 /\ Char(s, c2) = ":"
          /\ LET c1 == DigitsBack(s, c2 - 1)
             IN c1 < c2 - 1 /\ c1 >= 2 /\ Char(s, c1) = ":"

LocEnds(s) == {e \in 1..Len(s) : IsLocEnd(s, e)}

\* the three groups (.+), (\d+), (\d+) of the prefix that ends at e
LocGroups(s, e) ==
    LET c2 == DigitsBack(s, e - 1)
        c1 == DigitsBack(s, c2 - 1)
    IN [file |-> SubSeq(s, 1, c1 - 1), line |-> SubSeq(s, c1 + 1, c2 - 1),
        col |-> SubSeq(s, c2 + 1, e - 1)]

\* ends of the prefix for a pattern  ^(.+):(\d+):(\d+): <lit>(.+)$
LitThenRest(s, lit) ==
    {e \in LocEnds(s) : HasAt(s, e + 1, " " \o lit) /\ Len(s) > e + 1 + Len(lit)}

\* ends (e, j) for a pattern  ^(.+):(\d+):(\d+): (.+)<lit>  with <lit> at j;
\* anchored: the pattern ends with $
RestThenLit(s, lit, anchored) ==
    {p \in LocEnds(s) \X (1..Len(s)) :
        /\ Char(s, p[1] + 1) = " "
        /\ p[2] >= p[1] + 3
        /\ HasAt(s, p[2], lit)
        /\ (anchored => p[2] + Len(lit) - 1 = Len(s))}

\* ends of the prefix for a pattern  ^(.+):(\d+):(\d+):\s+<lit>(.+)$
SpaceLitThenRest(s, lit) ==
    {e \in LocEnds(s) :
        \E k \in (e + 2)..Len(s) :
            /\ \A i \in (e + 1)..(k - 1) : IsSpace(Char(s, i))
            /\ HasAt(s, k, lit)
            /\ Len(s) >= k + Len(lit)}

\* the submatches of the leftmost-first match: the greedy first group is the
\* longest that lets the rest match, then the greedy subject group
FindLitThenRest(s, lit) ==
    LET ends == LitThenRest(s, lit)
    IN IF ends = {} THEN <<>>
       ELSE LET e == Max(ends)
            IN <<[loc |-> LocGroups(s, e), subject |-> Suffix(s, e + 2 + Len(lit))]>>

FindRestThenLit(s, lit, anchored) ==
    LET ends == RestThenLit(s, lit, anchored)
    IN IF ends = {} THEN <<>>
       ELSE LET e == Max({p[1] : p \in ends})
                j == Max({p[2] : p \in {q \in ends : q[1] = e}})
            IN <<[loc |-> LocGroups(s, e), subject |-> SubSeq(s, e + 2, j - 1)]>>

movedToHeapRe(s)   == FindLitThenRest(s, "moved to heap: ")
escapesToHeapRe(s) == FindRestThenLit(s, " escapes to heap", FALSE)
doesNotEscapeRe(s) == FindRestThenLit(s, " does not escape", TRUE)
leakingParamRe(s)  == FindLitThenRest(s, "leaking param: ")
canInlineRe(s)     == FindLitThenRest(s, "can inline ")
inliningCallRe(s)  == FindLitThenRest(s, "inlining call to ")
flowRe(s)          == SpaceLitThenRest(s, "flow: ") # {}
fromRe(s)          == SpaceLitThenRest(s, "from ") # {}


Min(S) == CHOOSE x \in S : \A y \in S : x <= y

(***************************************************************************)
(* parser: EscapeType, EscapeInfo, the six header parsers and Parse.       *)
(* A Go pointer is a sequence of at most one element: <<>> is nil.         *)
(***************************************************************************)
Unknown       == 0
MovedToHeap   == 1
EscapesToHeap == 2
DoesNotEscape == 3
LeakingParam  == 4
CanInline     == 5
InliningCall  == 6

EscapeTypes == {Unknown, MovedToHeap, EscapesToHeap, DoesNotEscape, LeakingParam,
                CanInline, InliningCall}

\* the EscapeInfo literal every parseXxx builds from its submatches
EscapeInfo(m, escapeType, line) ==
    [File       |-> m.loc.file,
     Line       |-> strconv_Atoi(m.loc.line),
     Column     |-> strconv_Atoi(m.loc.col),
     Variable   |-> m.subject,
     EscapeType |-> escapeType,
     Reason     |-> line,
     FlowInfo   |-> <<>>]

\* matches == nil -> return nil; otherwise the address of the record
ParseWith(matches, escapeType, line) ==
    IF matches = <<>> THEN <<>> ELSE <<EscapeInfo(matches[1], escapeType, line)>>

parseMovedToHeap(line)   == ParseWith(movedToHeapRe(line), MovedToHeap, line)
parseEscapesToHeap(line) == ParseWith(escapesToHeapRe(line), EscapesToHeap, line)
parseDoesNotEscape(line) == ParseWith(doesNotEscapeRe(line), DoesNotEscape, line)
parseLeakingParam(line)  == ParseWith(leakingParamRe(line), LeakingParam, line)
parseCanInline(line)     == ParseWith(canInlineRe(line), CanInline, line)
parseInliningCall(line)  == ParseWith(inliningCallRe(line), InliningCall, line)

\* bufio.MaxScanTokenSize, the buffer limit of the Scanner bufio.NewScanner returns
MaxScanTokenSize == 65536

ErrTooLong == "bufio.Scanner: token too long"

\* bufio.ScanLines drops one trailing carriage return of a line
dropCR(data) ==
    IF Len(data) > 0 /\ Char(data, Len(data)) = "\r" THEN SubSeq(data, 1, Len(data) - 1)
    ELSE data

\* The model writes a run of FillerRun filler bytes as the one character
\* Filler: no pattern of the parser or the categorizer contains it, so no
\* submatch ever ends inside a run.  ByteLen is the length in bytes of the
\* text a string stands for.
Filler == "#"

ByteLen(s) == Len(s) + (FillerRun - 1) * Cardinality({i \in 1..Len(s) : Char(s, i) = Filler})

\* scanner.Scan() on the unread text: the next line and what is left, or the
\* end of the input, or the error of a line that does not fit the buffer
Scan(data) ==
    IF data = "" THEN [ok |-> FALSE, line |-> "", rest |-> "", err |-> ""]
    ELSE LET newline == IndexFrom(data, "\n", 1)
             token   == IF newline = 0 THEN data ELSE SubSeq(data, 1, newline - 1)
         IN IF ByteLen(token) >= MaxScanTokenSize
            THEN [ok |-> FALSE, line |-> "", rest |-> data, err |-> ErrTooLong]
            ELSE [ok |-> TRUE, line |-> dropCR(token),
                  rest |-> IF newline = 0 THEN "" ELSE Suffix(data, newline + 1),
                  err |-> ""]

\* the first of the six header parsers, in the order Parse tries them, that
\* returns a record
ParseHeader(line) ==
    LET moved   == parseMovedToHeap(line)
        escaped == parseEscapesToHeap(line)
        stays   == parseDoesNotEscape(line)
        leaking == parseLeakingParam(line)
        inline  == parseCanInline(line)
    IN IF moved # <<>> THEN moved
       ELSE IF escaped # <<>> THEN escaped
       ELSE IF stays # <<>> THEN stays
       ELSE IF leaking # <<>> THEN leaking
       ELSE IF inline # <<>> THEN inline
       ELSE parseInliningCall(line)

\* what Parse appends to FlowInfo for a flow/from line
FlowDetail(line) == strings_TrimSpace(line)

\* ParseLine where a new record starts with the flow details of the open one
ParseLineFlowBleeds(st, line) ==
    IF strings_TrimSpace(line) = "" THEN st
    ELSE LET info == ParseHeader(line)
         IN IF info # <<>>
            THEN [results       |-> IF st.currentEscape # <<>>
                                    THEN Append(st.results, st.currentEscape[1])
                                    ELSE st.results,
                  currentEscape |-> IF st.currentEscape # <<>>
                                    THEN <<[info[1] EXCEPT !.FlowInfo = st.currentEscape[1].FlowInfo]>>
                                    ELSE info]
            ELSE IF st.currentEscape # <<>> /\ (flowRe(line) \/ fromRe(line))
            THEN [st EXCEPT !.currentEscape[1].FlowInfo = Append(@, FlowDetail(line))]
            ELSE st

\* ParseLine where a line that is no header and no flow detail closes the
\* open record
ParseLineNoiseSeals(st, line) ==
    IF strings_TrimSpace(line) = "" THEN st
    ELSE LET info == ParseHeader(line)
         IN IF info # <<>>
            THEN [results       |-> IF st.currentEscape # <<>>
                                    THEN Append(st.results, st.currentEscape[1])
                                    ELSE st.results,
                  currentEscape |-> info]
            ELSE IF st.currentEscape # <<>> /\ (flowRe(line) \/ fromRe(line))
            THEN [st EXCEPT !.currentEscape[1].FlowInfo = Append(@, FlowDetail(line))]
            ELSE IF st.currentEscape # <<>>
            THEN [results |-> Append(st.results, st.currentEscape[1]), currentEscape |-> <<>>]
            ELSE st

\* the body of Parse's loop: st holds the locals results and currentEscape
ParseLine(st, line) ==
    IF strings_TrimSpace(line) = "" THEN st
    ELSE LET info == ParseHeader(line)
         IN IF info # <<>>
            THEN [results       |-> IF st.currentEscape # <<>>
                                    THEN Append(st.results, st.currentEscape[1])
                                    ELSE st.results,
                  currentEscape |-> info]
            ELSE IF st.currentEscape # <<>> /\ (flowRe(line) \/ fromRe(line))
            THEN [st EXCEPT !.currentEscape[1].FlowInfo = Append(@, FlowDetail(line))]
            ELSE st

\* ParseStart with results kept in a variable that outlives the call
ParseStartKeepsRecords ==
    [results |-> IF previous = <<>> THEN <<>> ELSE previous[Len(previous)].escapes,
     currentEscape |-> <<>>]

\* the locals of Parse before its loop
ParseStart == [results |-> <<>>, currentEscape |-> <<>>]

RECURSIVE ParseLoop(_, _)
ParseLoop(data, st) ==
    LET sc == Scan(data)
    IN IF sc.ok THEN ParseLoop(sc.rest, ParseLine(st, sc.line))
       ELSE [st |-> st, err |-> sc.err]

\* Flush that forgets the open record
FlushForgetsLast(st) == st.results

\* the results Parse holds after the loop ("Don't forget the last one")
Flush(st) ==
    IF st.currentEscape # <<>> THEN Append(st.results, st.currentEscape[1]) ELSE st.results

\* Parse that does not look at scanner.Err()
ParseIgnoresScanError(text) ==
    [escapes |-> Flush(ParseLoop(text, ParseStart).st), err |-> ""]

\* Parse(output): the pair (records, error); "" is the nil error
Parse(text) ==
    LET end == ParseLoop(text, ParseStart)
        all == Flush(end.st)
    IN IF end.err # "" THEN [escapes |-> <<>>, err |-> "scanning output: " \o end.err]
       ELSE [escapes |-> all, err |-> ""]

(***************************************************************************)
(* categorizer: the categories, their suggestions, categorize, Categorize. *)
(***************************************************************************)
CategoryReturnPointer    == "return-pointer"
CategoryInterfaceBoxing  == "interface-boxing"
CategoryClosureCapture   == "closure-capture"
CategoryGoroutineEscape  == "goroutine-escape"
CategoryChannelSend      == "channel-send"
CategorySliceGrow        == "slice-grow"
CategoryUnknownSize      == "unknown-size"
CategoryTooLarge         == "too-large"
CategoryFmtCall          == "fmt-call"
CategoryReflection       == "reflection"
CategoryLeakingParam     == "leaking-param"
CategoryStringConversion == "string-conversion"
CategorySpill            == "spill"
CategoryAssignment       == "assignment"
CategoryCallParameter    == "call-parameter"
CategoryMapAllocation    == "map-allocation"
CategoryNewAllocation    == "new-allocation"
CategoryCompositeLiteral == "composite-literal"
CategoryUncategorized    == "uncategorized"

Categories ==
    {CategoryReturnPointer, CategoryInterfaceBoxing, CategoryClosureCapture,
     CategoryGoroutineEscape, CategoryChannelSend, CategorySliceGrow,
     CategoryUnknownSize, CategoryTooLarge, CategoryFmtCall, CategoryReflection,
     CategoryLeakingParam, CategoryStringConversion, CategorySpill,
     CategoryAssignment, CategoryCallParameter, CategoryMapAllocation,
     CategoryNewAllocation, CategoryCompositeLiteral, CategoryUncategorized}

Suggestion(short, details, docLink) == [Short |-> short, Details |-> details, DocLink |-> docLink]

\* the zero value a Go map yields for a key it does not hold
ZeroSuggestion == Suggestion("", "", "")

\* the package-level map suggestions ("<=" stands for the source's U+2264)
suggestions ==
    [cat \in Categories |->
      CASE cat = CategoryReturnPointer ->
             Suggestion("Return by value if struct size <= 64 bytes",
                        "Returning a pointer to a local variable forces heap allocation. If the struct is small, return by value instead. For larger structs in hot paths, consider sync.Pool.",
                        "https://go.dev/doc/faq#stack_or_heap")
        [] cat = CategoryInterfaceBoxing ->
             Suggestion("Use concrete types in hot paths",
                        "Assigning to interface{} or any causes heap allocation for the type metadata. Use generics (Go 1.18+) or concrete types in performance-critical code.",
                        "https://go.dev/blog/intro-generics")
        [] cat = CategoryClosureCapture ->
             Suggestion("Pass variables as parameters instead of capturing",
                        "Variables captured by closures often escape. Pass them as function parameters instead, especially for goroutines.", "")
        [] cat = CategoryGoroutineEscape ->
             Suggestion("Consider worker pools for high-frequency goroutines",
                        "Variables passed to goroutines must outlive the creating function and thus escape. For high-throughput scenarios, use worker pools with pre-allocated buffers.", "")
        [] cat = CategoryChannelSend ->
             Suggestion("Buffer channels or use sync.Pool for sent values",
                        "Values sent on channels may escape. For frequently sent large objects, consider using sync.Pool.", "")
        [] cat = CategorySliceGrow ->
             Suggestion("Pre-allocate slice capacity",
                        "Slices that may grow via append can escape. Pre-allocate with make([]T, 0, expectedCap) when the final size is predictable.", "")
        [] cat = CategoryUnknownSize ->
             Suggestion("Use fixed-size arrays when length is known",
                        "make([]T, n) with non-constant n causes heap allocation. If size is known at compile time, use arrays [N]T or pre-allocate.", "")
        [] cat = CategoryTooLarge ->
             Suggestion("Large allocations go to heap by design",
                        "Very large structs or arrays are placed on heap regardless of escape. Consider if the full size is necessary or if you can use pointers to smaller chunks.", "")
        [] cat = CategoryFmtCall ->
             Suggestion("Use strconv in hot paths",
                        "fmt.Sprintf and similar cause interface boxing. Use strconv.Itoa, strconv.FormatFloat, etc. for simple conversions in hot paths.", "")
        [] cat = CategoryReflection ->
             Suggestion("Avoid reflect in hot paths",
                        "Reflection defeats escape analysis. Avoid reflect package in performance-critical code; use code generation or generics instead.", "")
        [] cat = CategoryLeakingParam ->
             Suggestion("Parameter escapes function scope",
                        "This parameter is stored or returned, causing it to escape. Consider if the storage is necessary or if you can restructure to avoid it.", "")
        [] cat = CategoryStringConversion ->
             Suggestion("String conversion allocates",
                        "Converting []byte to string (or vice versa) allocates. In hot paths, consider using unsafe conversion or reusing buffers.", "")
        [] cat = CategorySpill ->
             Suggestion("Compiler spilled value to heap",
                        "The compiler determined this value may outlive the stack frame. Check if the value is stored in a long-lived data structure.", "")
        [] cat = CategoryAssignment ->
             Suggestion("Value assigned to escaping location",
                        "This value is assigned to a variable that escapes (field, global, etc.). Consider if the assignment is necessary.", "")
        [] cat = CategoryCallParameter ->
             Suggestion("Value escapes via function call",
                        "This value is passed to a function that causes it to escape. Check if the called function stores the parameter.", "")
        [] cat = CategoryMapAllocation ->
             Suggestion("Maps always allocate on heap",
                        "Maps in Go always escape to heap. Consider using arrays for small fixed-size lookups, or sync.Pool for frequently created maps.", "")
        [] cat = CategoryNewAllocation ->
             Suggestion("new() always allocates on heap",
                        "The new() builtin allocates on heap. For small structs, consider stack allocation with var x T followed by &x if needed.", "")
        [] cat = CategoryCompositeLiteral ->
             Suggestion("Composite literal escapes",
                        "Struct/slice/map literals that escape the function are heap allocated. For hot paths, consider reusing allocations.", "")
        [] cat = CategoryUncategorized ->
             Suggestion("Review escape flow details",
                        "This escape couldn't be automatically categorized. Check the flow information for details on why the variable escapes.", "")]

\* suggestions[cat] as Go evaluates it: the zero value for a missing key
SuggestionOf(cat) == IF cat \in DOMAIN suggestions THEN suggestions[cat] ELSE ZeroSuggestion

\* categorize without the "to result" test of its leaking-param rule
categorizeWithoutToResult(e) ==
    LET reason   == strings_ToLower(e.Reason)
        flowInfo == strings_ToLower(strings_Join(e.FlowInfo, " "))
        combined == reason \o " " \o flowInfo
        variable == strings_ToLower(e.Variable)
    IN IF strings_Contains(flowInfo, "from return") /\ strings_Contains(flowInfo, "&")
            THEN CategoryReturnPointer
       ELSE IF strings_Contains(flowInfo, "address-of") /\ strings_Contains(flowInfo, "return")
            THEN CategoryReturnPointer
       ELSE IF strings_Contains(flowInfo, "interface-converted")
            THEN CategoryInterfaceBoxing
       ELSE IF strings_Contains(combined, "interface")
            THEN CategoryInterfaceBoxing
       ELSE IF strings_Contains(combined, "closure") \/ strings_Contains(combined, "captured")
            THEN CategoryClosureCapture
       ELSE IF strings_Contains(combined, "go func") \/ strings_Contains(combined, "goroutine")
            THEN CategoryGoroutineEscape
       ELSE IF strings_Contains(combined, "chan") \/ strings_Contains(combined, "channel")
            THEN CategoryChannelSend
       ELSE IF strings_Contains(combined, "append")
            THEN CategorySliceGrow
       ELSE IF strings_Contains(flowInfo, "appended")
            THEN CategorySliceGrow
       ELSE IF strings_Contains(combined, "non-constant")
            THEN CategoryUnknownSize
       ELSE IF strings_Contains(combined, "too large")
            THEN CategoryTooLarge
       ELSE IF strings_Contains(combined, "fmt.")
            THEN CategoryFmtCall
       ELSE IF strings_Contains(combined, "reflect")
            THEN CategoryReflection
       ELSE IF e.EscapeType = LeakingParam /\ strings_Contains(reason, "content")
            THEN CategoryInterfaceBoxing
       ELSE IF e.EscapeType = LeakingParam
            THEN CategoryLeakingParam
       ELSE IF strings_Contains(variable, "string(")
            THEN CategoryStringConversion
       ELSE IF strings_Contains(flowInfo, "spill")
            THEN CategorySpill
       ELSE IF e.EscapeType = MovedToHeap /\ strings_Contains(flowInfo, "assign")
            THEN CategoryAssignment
       ELSE IF e.EscapeType = MovedToHeap /\ strings_Contains(flowInfo, "call parameter")
            THEN CategoryCallParameter
       ELSE IF strings_Contains(variable, "...") \/ strings_Contains(reason, "... argument")
            THEN CategoryInterfaceBoxing
       ELSE IF strings_Contains(variable, "make(map") \/ strings_Contains(reason, "make(map")
            THEN CategoryMapAllocation
       ELSE IF strings_Contains(variable, "make([]") \/ strings_Contains(reason, "make([]")
            THEN CategorySliceGrow
       ELSE IF strings_Contains(variable, "new(") \/ strings_Contains(reason, "new(")
            THEN CategoryNewAllocation
       ELSE IF strings_Contains(variable, "literal") \/ strings_Contains(reason, "literal")
            THEN CategoryCompositeLiteral
       ELSE IF strings_Contains(reason, "&") /\ ~strings_Contains(flowInfo, "return")
            THEN CategoryCompositeLiteral
       ELSE CategoryUncategorized

\* categorize without its first rule, "from return" with "&"
categorizeWithoutFromReturn(e) ==
    LET reason   == strings_ToLower(e.Reason)
        flowInfo == strings_ToLower(strings_Join(e.FlowInfo, " "))
        combined == reason \o " " \o flowInfo
        variable == strings_ToLower(e.Variable)
    IN IF strings_Contains(flowInfo, "address-of") /\ strings_Contains(flowInfo, "return")
            THEN CategoryReturnPointer
       ELSE IF strings_Contains(flowInfo, "interface-converted")
            THEN CategoryInterfaceBoxing
       ELSE IF strings_Contains(combined, "interface")
            THEN CategoryInterfaceBoxing
       ELSE IF strings_Contains(combined, "closure") \/ strings_Contains(combined, "captured")
            THEN CategoryClosureCapture
       ELSE IF strings_Contains(combined, "go func") \/ strings_Contains(combined, "goroutine")
            THEN CategoryGoroutineEscape
       ELSE IF strings_Contains(combined, "chan") \/ strings_Contains(combined, "channel")
            THEN CategoryChannelSend
       ELSE IF strings_Contains(combined, "append")
            THEN CategorySliceGrow
       ELSE IF strings_Contains(flowInfo, "appended")
            THEN CategorySliceGrow
       ELSE IF strings_Contains(combined, "non-constant")
            THEN CategoryUnknownSize
       ELSE IF strings_Contains(combined, "too large")
            THEN CategoryTooLarge
       ELSE IF strings_Contains(combined, "fmt.")
            THEN CategoryFmtCall
       ELSE IF strings_Contains(combined, "reflect")
            THEN CategoryReflection
       ELSE IF e.EscapeType = LeakingParam /\ strings_Contains(reason, "to result")
            THEN CategoryReturnPointer
       ELSE IF e.EscapeType = LeakingParam /\ strings_Contains(reason, "content")
            THEN CategoryInterfaceBoxing
       ELSE IF e.EscapeType = LeakingParam
            THEN CategoryLeakingParam
       ELSE IF strings_Contains(variable, "string(")
            THEN CategoryStringConversion
       ELSE IF strings_Contains(flowInfo, "spill")
            THEN CategorySpill
       ELSE IF e.EscapeType = MovedToHeap /\ strings_Contains(flowInfo, "assign")
            THEN CategoryAssignment
       ELSE IF e.EscapeType = MovedToHeap /\ strings_Contains(flowInfo, "call parameter")
            THEN CategoryCallParameter
       ELSE IF strings_Contains(variable, "...") \/ strings_Contains(reason, "... argument")
            THEN CategoryInterfaceBoxing
       ELSE IF strings_Contains(variable, "make(map") \/ strings_Contains(reason, "make(map")
            THEN CategoryMapAllocation
       ELSE IF strings_Contains(variable, "make([]") \/ strings_Contains(reason, "make([]")
            THEN CategorySliceGrow
       ELSE IF strings_Contains(variable, "new(") \/ strings_Contains(reason, "new(")
            THEN CategoryNewAllocation
       ELSE IF strings_Contains(variable, "literal") \/ strings_Contains(reason, "literal")
            THEN CategoryCompositeLiteral
       ELSE IF strings_Contains(reason, "&") /\ ~strings_Contains(flowInfo, "return")
            THEN CategoryCompositeLiteral
       ELSE CategoryUncategorized

\* categorize with the closure rule tried before the interface rules
categorizeClosureFirst(e) ==
    LET reason   == strings_ToLower(e.Reason)
        flowInfo == strings_ToLower(strings_Join(e.FlowInfo, " "))
        combined == reason \o " " \o flowInfo
        variable == strings_ToLower(e.Variable)
    IN IF strings_Contains(flowInfo, "from return") /\ strings_Contains(flowInfo, "&")
            THEN CategoryReturnPointer
       ELSE IF strings_Contains(flowInfo, "address-of") /\ strings_Contains(flowInfo, "return")
            THEN CategoryReturnPointer
       ELSE IF strings_Contains(combined, "closure") \/ strings_Contains(combined, "captured")
            THEN CategoryClosureCapture
       ELSE IF strings_Contains(flowInfo, "interface-converted")
            THEN CategoryInterfaceBoxing
       ELSE IF strings_Contains(combined, "interface")
            THEN CategoryInterfaceBoxing
       ELSE IF strings_Contains(combined, "go func") \/ strings_Contains(combined, "goroutine")
            THEN CategoryGoroutineEscape
       ELSE IF strings_Contains(combined, "chan") \/ strings_Contains(combined, "channel")
            THEN CategoryChannelSend
       ELSE IF strings_Contains(combined, "append")
            THEN CategorySliceGrow
       ELSE IF strings_Contains(flowInfo, "appended")
            THEN CategorySliceGrow
       ELSE IF strings_Contains(combined, "non-constant")
            THEN CategoryUnknownSize
       ELSE IF strings_Contains(combined, "too large")
            THEN CategoryTooLarge
       ELSE IF strings_Contains(combined, "fmt.")
            THEN CategoryFmtCall
       ELSE IF strings_Contains(combined, "reflect")
            THEN CategoryReflection
       ELSE IF e.EscapeType = LeakingParam /\ strings_Contains(reason, "to result")
            THEN CategoryReturnPointer
       ELSE IF e.EscapeType = LeakingParam /\ strings_Contains(reason, "content")
            THEN CategoryInterfaceBoxing
       ELSE IF e.EscapeType = LeakingParam
            THEN CategoryLeakingParam
       ELSE IF strings_Contains(variable, "string(")
            THEN CategoryStringConversion
       ELSE IF strings_Contains(flowInfo, "spill")
            THEN CategorySpill
       ELSE IF e.EscapeType = MovedToHeap /\ strings_Contains(flowInfo, "assign")
            THEN CategoryAssignment
       ELSE IF e.EscapeType = MovedToHeap /\ strings_Contains(flowInfo, "call parameter")
            THEN CategoryCallParameter
       ELSE IF strings_Contains(variable, "...") \/ strings_Contains(reason, "... argument")
            THEN CategoryInterfaceBoxing
       ELSE IF strings_Contains(variable, "make(map") \/ strings_Contains(reason, "make(map")
            THEN CategoryMapAllocation
       ELSE IF strings_Contains(variable, "make([]") \/ strings_Contains(reason, "make([]")
            THEN CategorySliceGrow
       ELSE IF strings_Contains(variable, "new(") \/ strings_Contains(reason, "new(")
            THEN CategoryNewAllocation
       ELSE IF strings_Contains(variable, "literal") \/ strings_Contains(reason, "literal")
            THEN CategoryCompositeLiteral
       ELSE IF strings_Contains(reason, "&") /\ ~strings_Contains(flowInfo, "return")
            THEN CategoryCompositeLiteral
       ELSE CategoryUncategorized

\* categorize: the first rule of the cascade that matches decides
categorize(e) ==
    LET reason   == strings_ToLower(e.Reason)
        flowInfo == strings_ToLower(strings_Join(e.FlowInfo, " "))
        combined == reason \o " " \o flowInfo
        variable == strings_ToLower(e.Variable)
    IN IF strings_Contains(flowInfo, "from return") /\ strings_Contains(flowInfo, "&")
            THEN CategoryReturnPointer
       ELSE IF strings_Contains(flowInfo, "address-of") /\ strings_Contains(flowInfo, "return")
            THEN CategoryReturnPointer
       ELSE IF strings_Contains(flowInfo, "interface-converted")
            THEN CategoryInterfaceBoxing
       ELSE IF strings_Contains(combined, "interface")
            THEN CategoryInterfaceBoxing
       ELSE IF strings_Contains(combined, "closure") \/ strings_Contains(combined, "captured")
            THEN CategoryClosureCapture
       ELSE IF strings_Contains(combined, "go func") \/ strings_Contains(combined, "goroutine")
            THEN CategoryGoroutineEscape
       ELSE IF strings_Contains(combined, "chan") \/ strings_Contains(combined, "channel")
            THEN CategoryChannelSend
       ELSE IF strings_Contains(combined, "append")
            THEN CategorySliceGrow
       ELSE IF strings_Contains(flowInfo, "appended")
            THEN CategorySliceGrow
       ELSE IF strings_Contains(combined, "non-constant")
            THEN CategoryUnknownSize
       ELSE IF strings_Contains(combined, "too large")
            THEN CategoryTooLarge
       ELSE IF strings_Contains(combined, "fmt.")
            THEN CategoryFmtCall
       ELSE IF strings_Contains(combined, "reflect")
            THEN CategoryReflection
       ELSE IF e.EscapeType = LeakingParam /\ strings_Contains(reason, "to result")
            THEN CategoryReturnPointer
       ELSE IF e.EscapeType = LeakingParam /\ strings_Contains(reason, "content")
            THEN CategoryInterfaceBoxing
       ELSE IF e.EscapeType = LeakingParam
            THEN CategoryLeakingParam
       ELSE IF strings_Contains(variable, "string(")
            THEN CategoryStringConversion
       ELSE IF strings_Contains(flowInfo, "spill")
            THEN CategorySpill
       ELSE IF e.EscapeType = MovedToHeap /\ strings_Contains(flowInfo, "assign")
            THEN CategoryAssignment
       ELSE IF e.EscapeType = MovedToHeap /\ strings_Contains(flowInfo, "call parameter")
            THEN CategoryCallParameter
       ELSE IF strings_Contains(variable, "...") \/ strings_Contains(reason, "... argument")
            THEN CategoryInterfaceBoxing
       ELSE IF strings_Contains(variable, "make(map") \/ strings_Contains(reason, "make(map")
            THEN CategoryMapAllocation
       ELSE IF strings_Contains(variable, "make([]") \/ strings_Contains(reason, "make([]")
            THEN CategorySliceGrow
       ELSE IF strings_Contains(variable, "new(") \/ strings_Contains(reason, "new(")
            THEN CategoryNewAllocation
       ELSE IF strings_Contains(variable, "literal") \/ strings_Contains(reason, "literal")
            THEN CategoryCompositeLiteral
       ELSE IF strings_Contains(reason, "&") /\ ~strings_Contains(flowInfo, "return")
            THEN CategoryCompositeLiteral
       ELSE CategoryUncategorized

\* Incr with the count stored instead of added: m[k] = 1
IncrStoresOne(m, k) == (k :> 1) @@ m

\* m[k]++ on a Go map: a missing key counts from zero
Incr(m, k) == IF k \in DOMAIN m THEN [m EXCEPT ![k] = @ + 1] ELSE m @@ (k :> 1)

\* NewResults whose TotalVariables starts at one
NewResultsTotalOne ==
    [Summary    |-> [TotalVariables |-> 1, StackAllocated |-> 0, HeapAllocated |-> 0,
                     Inlined |-> 0, ByFile |-> <<>>],
     ByCategory |-> <<>>,
     Escapes    |-> <<>>]

\* the Results Categorize allocates before its loop
NewResults ==
    [Summary    |-> [TotalVariables |-> 0, StackAllocated |-> 0, HeapAllocated |-> 0,
                     Inlined |-> 0, ByFile |-> <<>>],
     ByCategory |-> <<>>,
     Escapes    |-> <<>>]

\* CategorizedEscape with the suggestion of the fallback category for all
CategorizedEscapeFallbackText(e, cat) ==
    [Info |-> e, Category |-> cat, Suggestion |-> suggestions[CategoryUncategorized]]

\* the CategorizedEscape Categorize appends for a heap-bound record
CategorizedEscape(e, cat) == [Info |-> e, Category |-> cat, Suggestion |-> SuggestionOf(cat)]

\* CountHeap that leaves uncategorized records out of ByCategory
CountHeapSkipsUncategorized(r, e) ==
    LET cat == categorize(e)
    IN [r EXCEPT !.Summary.HeapAllocated = @ + 1,
                 !.Summary.ByFile = Incr(@, e.File),
                 !.ByCategory = IF cat = CategoryUncategorized THEN @ ELSE Incr(@, cat),
                 !.Escapes = Append(@, [Info |-> e, Category |-> cat,
                                        Suggestion |-> SuggestionOf(cat)])]

\* CountHeap that puts the new record in front of Escapes
CountHeapPrepends(r, e) ==
    LET cat == categorize(e)
    IN [r EXCEPT !.Summary.HeapAllocated = @ + 1,
                 !.Summary.ByFile = Incr(@, e.File),
                 !.ByCategory = Incr(@, cat),
                 !.Escapes = <<[Info |-> e, Category |-> cat,
                                Suggestion |-> SuggestionOf(cat)]>> \o @]

\* the heap case of Categorize's switch
CountHeap(r, e) ==
    LET cat == categorize(e)
    IN [r EXCEPT !.Summary.HeapAllocated = @ + 1,
                 !.Summary.ByFile = Incr(@, e.File),
                 !.ByCategory = Incr(@, cat),
                 !.Escapes = Append(@, CategorizedEscape(e, cat))]

\* CountRecord whose last case names CanInline alone
CountRecordMissesInliningCall(r, e) ==
    LET counted == [r EXCEPT !.Summary.TotalVariables = @ + 1]
    IN CASE e.EscapeType = DoesNotEscape
              -> [counted EXCEPT !.Summary.StackAllocated = @ + 1]
         [] e.EscapeType \in {MovedToHeap, EscapesToHeap, LeakingParam}
              -> [counted EXCEPT !.Summary.HeapAllocated = @ + 1]
         [] e.EscapeType = CanInline
              -> [counted EXCEPT !.Summary.Inlined = @ + 1]
         [] OTHER -> counted

\* the body of Categorize's loop for the record e
CountRecord(r, e) ==
    LET counted == [r EXCEPT !.Summary.TotalVariables = @ + 1]
    IN CASE e.EscapeType = DoesNotEscape
              -> [counted EXCEPT !.Summary.StackAllocated = @ + 1]
         [] e.EscapeType \in {MovedToHeap, EscapesToHeap, LeakingParam}
              -> CountHeap(counted, e)
         [] e.EscapeType \in {CanInline, InliningCall}
              -> [counted EXCEPT !.Summary.Inlined = @ + 1]
         [] OTHER -> counted

\* CategorizeFrom that counts a record equal to the one before it only once
RECURSIVE CategorizeFromSkipsRepeated(_, _, _)
CategorizeFromSkipsRepeated(infos, i, r) ==
    IF i > Len(infos) THEN r
    ELSE CategorizeFromSkipsRepeated(infos, i + 1,
             IF i > 1 /\ infos[i] = infos[i - 1] THEN r ELSE CountRecord(r, infos[i]))

RECURSIVE CategorizeFrom(_, _, _)
CategorizeFrom(infos, i, r) ==
    IF i > Len(infos) THEN r ELSE CategorizeFrom(infos, i + 1, CountRecord(r, infos[i]))

Categorize(infos) == CategorizeFrom(infos, 1, NewResults)

(***************************************************************************)
(* The inputs.                                                             *)
(***************************************************************************)
\* lines a compiler run may write: the six headers, a flow and a from line,
\* an empty line, a line no pattern matches and a line too long for the
\* scanner
InputLines ==
    {"a.go:1:2: moved to heap: x",
     "a.go:3:4: &T{} escapes to heap:",
     "b.go:5:6: z does not escape",
     "b.go:7:8: leaking param: p",
     "a.go:9:1: can inline f",
     "a.go:2:3: inlining call to f",
     "a.go:3:4:   flow: r = &y:",
     "a.go:3:4:     from &y (address-of)",
     "",
     "<autogenerated>",
     Filler}

\* the compiler outputs of at most MaxLines lines; a blank last line is the
\* line end of the line before it
Outputs == {strings_Join(ls, "\n") : ls \in UNION {[1..n -> InputLines] : n \in 0..MaxLines}}

\* records a caller may hand to Categorize: every EscapeType, two files, and
\* texts that take different rules of categorize
InputRecords ==
    {[File |-> "a.go", Line |-> 1, Column |-> 2, Variable |-> "x", EscapeType |-> Unknown,
      Reason |-> "", FlowInfo |-> <<>>],
     [File |-> "a.go", Line |-> 1, Column |-> 2, Variable |-> "a", EscapeType |-> DoesNotEscape,
      Reason |-> "", FlowInfo |-> <<>>],
     [File |-> "a.go", Line |-> 9, Column |-> 1, Variable |-> "func", EscapeType |-> CanInline,
      Reason |-> "", FlowInfo |-> <<>>],
     [File |-> "b.go", Line |-> 2, Column |-> 3, Variable |-> "call", EscapeType |-> InliningCall,
      Reason |-> "", FlowInfo |-> <<>>],
     [File |-> "a.go", Line |-> 1, Column |-> 2, Variable |-> "c", EscapeType |-> MovedToHeap,
      Reason |-> "moved to heap: c", FlowInfo |-> <<"from return &c">>],
     [File |-> "b.go", Line |-> 1, Column |-> 2, Variable |-> "x", EscapeType |-> MovedToHeap,
      Reason |-> "moved to heap: x", FlowInfo |-> <<>>],
     [File |-> "b.go", Line |-> 3, Column |-> 4, Variable |-> "d", EscapeType |-> EscapesToHeap,
      Reason |-> "d escapes", FlowInfo |-> <<"Interface">>],
     [File |-> "a.go", Line |-> 3, Column |-> 4, Variable |-> "string(b)",
      EscapeType |-> EscapesToHeap, Reason |-> "string(b) escapes to heap", FlowInfo |-> <<>>],
     [File |-> "a.go", Line |-> 7, Column |-> 8, Variable |-> "p", EscapeType |-> LeakingParam,
      Reason |-> "leaking param: p", FlowInfo |-> <<>>],
     [File |-> "c.go", Line |-> 7, Column |-> 8, Variable |-> "q to result ~r0 level=0",
      EscapeType |-> LeakingParam, Reason |-> "leaking param: q to result ~r0 level=0",
      FlowInfo |-> <<>>],
     [File |-> "a.go", Line |-> 4, Column |-> 8, Variable |-> "data",
      EscapeType |-> LeakingParam, Reason |-> "leaking param content: data",
      FlowInfo |-> <<>>],
     [File |-> "b.go", Line |-> 6, Column |-> 8, Variable |-> "fn",
      EscapeType |-> LeakingParam, Reason |-> "leaking param: fn",
      FlowInfo |-> <<"captured by a closure">>]}

RecordLists == UNION {[1..n -> InputRecords] : n \in 0..MaxRecords}

(***************************************************************************)
(* The parts of the repository a specification does not exercise stand     *)
(* still in it: no caller of GetSuggestion, no test under guard.           *)
(***************************************************************************)
SuggestIdle == asked = <<>> /\ suggested = <<>>

GuardIdle ==
    /\ usage = "none"
    /\ gpc = "idle"
    /\ cfg = <<>>
    /\ goroutines = <<>>
    /\ nextID = 1
    /\ heapAlloc = 0
    /\ snapshot = <<>>
    /\ retry = 0
    /\ diff = <<>>
    /\ leaked = <<>>
    /\ errors = <<>>
    /\ comparisons = <<>>
    /\ exitCode = 0
    /\ exited = <<>>

\* a closed or open channel with its buffered elements
Chan(buf, closed) == [buf |-> buf, closed |-> closed]

\* no WorkerPool exists
PoolIdle ==
    /\ pool = <<>>
    /\ tasks = Chan(<<>>, FALSE)
    /\ poolResults = Chan(<<>>, FALSE)
    /\ workers = <<>>
    /\ wg = 0
    /\ ctxDone = FALSE
    /\ mpc = "idle"
    /\ submitted = 0
    /\ cpc = "idle"
    /\ received = <<>>

OthersIdle == SuggestIdle /\ GuardIdle /\ PoolIdle

(***************************************************************************)
(* The flags of the command line that run reads.                           *)
(***************************************************************************)
Config(escapesOnly, filterPkg) == [EscapesOnly |-> escapesOnly, FilterPkg |-> filterPkg]

\* the flags as flag.Bool and flag.String default them: no filter is applied
DefaultConfig == Config(FALSE, "")

(***************************************************************************)
(* run: Parse, then Categorize.  A run may be repeated on the same output. *)
(* With the default flags step 4 of run applies no filter.                 *)
(***************************************************************************)
Init ==
    /\ pc = "parse"
    /\ output \in Outputs
    /\ escapes = <<>>
    /\ err = ""
    /\ results = <<>>
    /\ previous = <<>>
    /\ config = DefaultConfig
    /\ filtered = <<>>
    /\ OthersIdle

\* escapes, err := parser.Parse(rawOutput); a non-nil error ends run
RunParse ==
    /\ pc = "parse"
    /\ \E r \in {Parse(output)} : escapes' = r.escapes /\ err' = r.err
    /\ pc' = IF err' # "" THEN "failed" ELSE "categorize"
    /\ UNCHANGED <<output, results, previous, filterVars, otherVars>>

\* results := categorizer.Categorize(escapes)
RunCategorize ==
    /\ pc = "categorize"
    /\ results' = <<Categorize(escapes)>>
    /\ pc' = "done"
    /\ UNCHANGED <<output, escapes, err, previous, filterVars, otherVars>>

\* what a finished run leaves behind
Outcome == [escapes |-> escapes, err |-> err, results |-> results]

\* the program is started again on the same compiler output
Rerun ==
    /\ pc \in {"done", "failed"}
    /\ Len(previous) < MaxRuns - 1
    /\ previous' = Append(previous, Outcome)
    /\ pc' = "parse"
    /\ escapes' = <<>>
    /\ err' = ""
    /\ results' = <<>>
    /\ UNCHANGED <<output, filterVars, otherVars>>

Next == RunParse \/ RunCategorize \/ Rerun

Spec == Init /\ [][Next]_vars

(***************************************************************************)
(* Categorize called directly (as its tests do) with any list of records.  *)
(***************************************************************************)
InitCategorize ==
    /\ pc = "categorize"
    /\ output = ""
    /\ escapes \in RecordLists
    /\ err = ""
    /\ results = <<>>
    /\ previous = <<>>
    /\ config = DefaultConfig
    /\ filtered = <<>>
    /\ OthersIdle

NextCategorize == RunCategorize

SpecCategorize == InitCategorize /\ [][NextCategorize]_vars

(***************************************************************************)
(* run on compiler output as go build -gcflags=-m=2 writes it for one      *)
(* file: headers, headers that hold the keyword of another pattern, the    *)
(* "leaking param content:" diagnostic, and flow / from lines.             *)
(***************************************************************************)
\* the longest such output, in lines
MaxDiagnostics == 2

\* the file the compiler reports on
DiagnosticFile == "a.go"

DiagnosticLines ==
    {"a.go:1:2: moved to heap: x",
     "a.go:1:2: moved to heap: x escapes to heap",
     "a.go:3:4: leaking param: p does not escape",
     "a.go:7:8: leaking param: p",
     "a.go:4:8: leaking param content: data",
     "a.go:5:6: &T{} escapes to heap",
     "a.go:9:1: can inline f with cost 2 as: func() { panic(\"x escapes to heap\") }",
     "a.go:3:4:   flow: r = &y:",
     "a.go:3:4:     from &y (address-of)"}

DiagnosticOutputs ==
    {strings_Join(ls, "\n") : ls \in UNION {[1..n -> DiagnosticLines] : n \in 0..MaxDiagnostics}}

InitDiagnostics ==
    /\ pc = "parse"
    /\ output \in DiagnosticOutputs
    /\ escapes = <<>>
    /\ err = ""
    /\ results = <<>>
    /\ previous = <<>>
    /\ config = DefaultConfig
    /\ filtered = <<>>
    /\ OthersIdle

NextDiagnostics == RunParse \/ RunCategorize

SpecDiagnostics == InitDiagnostics /\ [][NextDiagnostics]_vars

(***************************************************************************)
(* Categorize on records that several rules of categorize match, in the    *)
(* form the categorizer's tests give them: Reason and FlowInfo without a   *)
(* location prefix.                                                        *)
(***************************************************************************)
\* the longest such record list
MaxRuleRecords == 2

\* a record as TestCategorize writes it
RuleRecord(escapeType, variable, reason, flowInfo) ==
    [File |-> "a.go", Line |-> 1, Column |-> 2, Variable |-> variable,
     EscapeType |-> escapeType, Reason |-> reason, FlowInfo |-> flowInfo]

RuleRecords ==
    {RuleRecord(MovedToHeap, "u", "moved to heap: u",
                <<"from return &u (address-of)", "from &u (return)">>),
     RuleRecord(MovedToHeap, "c", "moved to heap: c", <<"from return &c">>),
     RuleRecord(EscapesToHeap, "&T{}", "&T{} escapes to heap", <<"from return r">>),
     RuleRecord(MovedToHeap, "x", "moved to heap: x",
                <<"captured by closure", "flow: interface-converted">>),
     RuleRecord(EscapesToHeap, "ch", "ch escapes to heap",
                <<"sent to channel", "go func literal">>),
     RuleRecord(EscapesToHeap, "s", "s escapes to heap",
                <<"non-constant size", "appended to slice">>),
     RuleRecord(MovedToHeap, "buf", "moved to heap: buf",
                <<"fmt.Println(x)", "too large for stack">>),
     RuleRecord(LeakingParam, "p", "leaking param: p", <<"reflect.ValueOf">>),
     RuleRecord(LeakingParam, "string(b)", "leaking param: string(b)", <<>>),
     RuleRecord(EscapesToHeap, "string(b)", "string(b) escapes to heap", <<"spill">>),
     RuleRecord(MovedToHeap, "x", "moved to heap: x", <<"assign", "spill">>),
     RuleRecord(MovedToHeap, "x", "moved to heap: x", <<"call parameter", "assign">>),
     RuleRecord(EscapesToHeap, "x", "x escapes to heap", <<"assign">>),
     RuleRecord(MovedToHeap, "make(map[string]int)", "moved to heap: make(map[string]int)",
                <<"call parameter">>),
     RuleRecord(EscapesToHeap, "... argument", "make(map[K]V) as ... argument escapes to heap",
                <<>>),
     RuleRecord(EscapesToHeap, "make(map[int][]int)", "new(T) in make([]T, n) of make(map[int][]int)",
                <<>>),
     RuleRecord(EscapesToHeap, "make([]int, n)", "new(T) literal", <<>>),
     RuleRecord(EscapesToHeap, "new(T)", "&T literal", <<>>),
     RuleRecord(EscapesToHeap, "func literal", "&T{} escapes to heap", <<>>),
     RuleRecord(EscapesToHeap, "&T{}", "&T{} escapes to heap", <<>>),
     RuleRecord(EscapesToHeap, "x", "x escapes to heap", <<>>)}

RuleRecordLists == UNION {[1..n -> RuleRecords] : n \in 0..MaxRuleRecords}

InitRules ==
    /\ pc = "categorize"
    /\ output = ""
    /\ escapes \in RuleRecordLists
    /\ err = ""
    /\ results = <<>>
    /\ previous = <<>>
    /\ config = DefaultConfig
    /\ filtered = <<>>
    /\ OthersIdle

NextRules == RunCategorize

SpecRules == InitRules /\ [][NextRules]_vars

(***************************************************************************)
(* Step 4 of run: the filters.  A filter builds a new Results and only     *)
(* reads the one it is given.                                              *)
(***************************************************************************)
containsPrefix(path, prefix) ==
    Len(path) >= Len(prefix) /\ SubSeq(path, 1, Len(prefix)) = prefix

\* filterEscapesOnly that keeps the records of kind LeakingParam too
filterEscapesOnlyKeepsLeaking(r) ==
    [Summary    |-> r.Summary,
     ByCategory |-> r.ByCategory,
     Escapes    |-> SelectSeq(r.Escapes,
                        LAMBDA e : e.Info.EscapeType \in {MovedToHeap, EscapesToHeap,
                                                           LeakingParam})]

filterEscapesOnly(r) ==
    [Summary    |-> r.Summary,
     ByCategory |-> r.ByCategory,
     Escapes    |-> SelectSeq(r.Escapes,
                        LAMBDA e : \/ e.Info.EscapeType = MovedToHeap
                                   \/ e.Info.EscapeType = EscapesToHeap)]

\* filterByPackage that counts HeapAllocated anew from the records it keeps
filterByPackageRecounts(r, prefix) ==
    LET kept == SelectSeq(r.Escapes, LAMBDA e : containsPrefix(e.Info.File, prefix))
    IN [Summary    |-> [r.Summary EXCEPT !.HeapAllocated = Len(kept)],
        ByCategory |-> r.ByCategory,
        Escapes    |-> kept]

filterByPackage(r, prefix) ==
    [Summary    |-> r.Summary,
     ByCategory |-> r.ByCategory,
     Escapes    |-> SelectSeq(r.Escapes, LAMBDA e : containsPrefix(e.Info.File, prefix))]

\* run's variable results at step 4: what Categorize returned, or what the
\* last filter call returned
CurrentResults == IF filtered = <<>> THEN results[1] ELSE filtered[Len(filtered)]

\* if cfg.EscapesOnly { results = filterEscapesOnly(results) }
RunFilterEscapesOnly ==
    /\ pc = "done"
    /\ filtered' = IF config.EscapesOnly
                   THEN Append(filtered, filterEscapesOnly(CurrentResults))
                   ELSE filtered
    /\ pc' = "filterpkg"
    /\ UNCHANGED <<output, escapes, err, results, previous, config, otherVars>>

\* if cfg.FilterPkg != "" { results = filterByPackage(results, cfg.FilterPkg) }
RunFilterByPackage ==
    /\ pc = "filterpkg"
    /\ filtered' = IF config.FilterPkg # ""
                   THEN Append(filtered, filterByPackage(CurrentResults, config.FilterPkg))
                   ELSE filtered
    /\ pc' = "report"
    /\ UNCHANGED <<output, escapes, err, results, previous, config, otherVars>>

\* the longest record list of a filtered run
MaxFiltered == 3

\* values of the --filter flag: unset, a prefix of a.go, a whole path, and a
\* prefix longer than every path
FilterPrefixes == {"", "a", "b.go", "internal/x"}

Configs == {Config(e, f) : e \in BOOLEAN, f \in FilterPrefixes}

\* the records of the filtered runs: those without flow details that
\* Categorize counts as stack or heap
FilterRecords ==
    {e \in InputRecords : /\ e.FlowInfo = <<>>
                          /\ e.EscapeType \in {DoesNotEscape, MovedToHeap, EscapesToHeap,
                                               LeakingParam}}

InitFilter ==
    /\ pc = "categorize"
    /\ output = ""
    /\ escapes \in UNION {[1..n -> FilterRecords] : n \in 0..MaxFiltered}
    /\ err = ""
    /\ results = <<>>
    /\ previous = <<>>
    /\ config \in Configs
    /\ filtered = <<>>
    /\ OthersIdle

NextFilter == RunCategorize \/ RunFilterEscapesOnly \/ RunFilterByPackage

SpecFilter == InitFilter /\ [][NextFilter]_vars

(***************************************************************************)
(* GetSuggestion, called for one category after the other as its test      *)
(* does.                                                                   *)
(***************************************************************************)
\* GetSuggestion that answers a missing category with the zero Suggestion
GetSuggestionZeroForMissing(cat) ==
    IF cat \in DOMAIN suggestions THEN suggestions[cat] ELSE ZeroSuggestion

GetSuggestion(cat) ==
    IF cat \in DOMAIN suggestions THEN suggestions[cat] ELSE suggestions[CategoryUncategorized]

\* the longest list of categories asked for
MaxAsked == 2

\* Category is a string type: the declared constants and strings that are
\* none of them
CategoryValues == Categories \cup {"", "Return-Pointer", "heap", "unknown"}

\* run stands still
PipelineIdle ==
    /\ pc = "idle"
    /\ output = ""
    /\ escapes = <<>>
    /\ err = ""
    /\ results = <<>>
    /\ previous = <<>>
    /\ config = DefaultConfig
    /\ filtered = <<>>

InitSuggestion ==
    /\ PipelineIdle
    /\ GuardIdle
    /\ PoolIdle
    /\ asked \in UNION {[1..n -> CategoryValues] : n \in 0..MaxAsked}
    /\ suggested = <<>>

\* suggestion := GetSuggestion(cat)
CallGetSuggestion ==
    /\ asked # <<>>
    /\ suggested' = Append(suggested, [Category   |-> Head(asked),
                                       Suggestion |-> GetSuggestion(Head(asked))])
    /\ asked' = Tail(asked)
    /\ UNCHANGED <<pipelineVars, filterVars, guardVars, poolVars>>

NextSuggestion == CallGetSuggestion

SpecSuggestion == InitSuggestion /\ [][NextSuggestion]_vars

(***************************************************************************)
(* The goroutines of a test process.                                       *)
(***************************************************************************)
\* how many goroutines the test body (or m.Run) starts at most
MaxSpawned == 2

\* the goroutine that runs the test
TestGoroutine == [State |-> "running", Frames |-> "main.TestLeak()\ntesting.tRunner()"]

\* goroutines a test body starts: a worker, a background worker with the
\* ignored function on top, one with it below the top frame, and one whose
\* stack shows a frame of the expected patterns
InputGoroutines ==
    {[State |-> "chan receive", Frames |-> "main.worker()\ncreated by main.TestLeak"],
     [State |-> "select",       Frames |-> "pkg.backgroundWorker()\ncreated by pkg.Start"],
     [State |-> "IO wait",      Frames |-> "net.Read()\npkg.backgroundWorker()"],
     [State |-> "sleep",        Frames |-> "time.Sleep()\nruntime.goexit()"]}

\* a goroutine that runs before the test starts
PoolGoroutine == [State |-> "chan receive", Frames |-> "main.pool()\ncreated by main.init"]

\* the first goroutine is the test's, the second one the pool's; the test
\* body's get the IDs from here
FirstBodyID == 3

\* every stack runtime.Stack can print in a test
Stacks ==
    {"goroutine " \o ToString(id) \o " [" \o g.State \o "]:\n" \o g.Frames \o "\n" :
        id \in 1..(FirstBodyID + MaxSpawned - 1),
        g \in InputGoroutines \cup {TestGoroutine, PoolGoroutine}}

(***************************************************************************)
(* Package runtime (detector.go): snapshots of the Go runtime.             *)
(* A live goroutine is an ID with the state and the frames runtime.Stack   *)
(* prints for it.  Snapshot and Diff keep the fields the checks read:      *)
(* the goroutine count, HeapAlloc and the goroutine IDs.                   *)
(***************************************************************************)
\* what runtime.Stack(buf, true) writes for one goroutine; this is also the
\* piece splitGoroutineStacks cuts out for it: from its header to the next
StackOf(id, g) ==
    "goroutine " \o ToString(id) \o " [" \o g.State \o "]:\n" \o g.Frames \o "\n"

\* the IDs of the headers "goroutine N [state]" of the dump
captureGoroutineIDs(gs) == DOMAIN gs

\* findGoroutineInfo for a goroutine of the dump
GoroutineInfo(id, g) == [ID |-> id, State |-> g.State, Stack |-> StackOf(id, g)]

expectedPatterns ==
    <<"runtime.gopark", "runtime.chanrecv", "runtime.chansend", "testing.(*T).Run",
      "testing.tRunner", "runtime.main", "runtime.gcBgMarkWorker", "runtime.bgsweep",
      "runtime.bgscavenge", "runtime.forcegchelper", "runtime.timerproc",
      "signal.signal_recv", "os/signal.loop", "runtime.runfinq", "runtime.goexit">>

\* strings.ToLower(pattern) of each pattern
expectedPatternsLower == [k \in 1..Len(expectedPatterns) |-> strings_ToLower(expectedPatterns[k])]

isExpectedGoroutine(stack) ==
    LET stackLower == strings_ToLower(stack)
    IN \E k \in 1..Len(expectedPatternsLower) :
           strings_Contains(stackLower, expectedPatternsLower[k])

\* isExpectedGoroutine, worked out once for every stack of Stacks
isExpected == [stack \in Stacks |-> isExpectedGoroutine(stack)]

\* sort.Slice by ID of the infos of the goroutines ids
RECURSIVE SortByID(_, _)
SortByID(ids, gs) ==
    IF ids = {} THEN <<>>
    ELSE LET id == Min(ids)
         IN <<GoroutineInfo(id, gs[id])>> \o SortByID(ids \ {id}, gs)

\* the goroutines of after that are not in before, are in the dump gs and
\* are not expected
findLeakedGoroutines(before, after, gs) ==
    SortByID({id \in after : /\ id \notin before
                             /\ id \in DOMAIN gs
                             /\ ~isExpected[StackOf(id, gs[id])]}, gs)

\* TakeSnapshot on the goroutines gs and a heap of heap bytes
TakeSnapshot(gs, heap) ==
    [Goroutines    |-> Cardinality(DOMAIN gs),
     HeapAllocated |-> heap,
     GoroutineIDs  |-> captureGoroutineIDs(gs)]

\* s.Compare() on the goroutines gs and a heap of heap bytes
Compare(s, gs, heap) ==
    [GoroutineGrowth  |-> Cardinality(DOMAIN gs) - s.Goroutines,
     HeapGrowthBytes  |-> heap - s.HeapAllocated,
     LeakedGoroutines |-> findLeakedGoroutines(s.GoroutineIDs, captureGoroutineIDs(gs), gs)]

\* Options of package runtime
Options(maxGoroutineGrowth, maxHeapGrowthMB, retryCount) ==
    [MaxGoroutineGrowth |-> maxGoroutineGrowth,
     MaxHeapGrowthMB    |-> maxHeapGrowthMB,
     RetryCount         |-> retryCount]

DefaultOptions == Options(0, 0, 3)

(***************************************************************************)
(* Package guard (guard.go): the config, its options and the ignore        *)
(* patterns.                                                               *)
(***************************************************************************)
defaultConfig ==
    [maxGoroutines  |-> 0,
     maxHeapMB      |-> 0,
     retryCount     |-> 3,
     ignoreFuncs    |-> <<>>,
     ignoreContains |-> <<>>]

\* an Option is the field it sets and the value it was made with
MaxGoroutines(n)      == [option |-> "MaxGoroutines", value |-> n]
MaxHeapMB(mb)         == [option |-> "MaxHeapMB", value |-> mb]
RetryCount(n)         == [option |-> "RetryCount", value |-> n]
IgnoreTopFunction(fn) == [option |-> "IgnoreTopFunction", value |-> fn]
IgnoreContains(s)     == [option |-> "IgnoreContains", value |-> s]

\* opt(cfg)
ApplyOption(c, opt) ==
    IF opt.option = "MaxGoroutines" THEN [c EXCEPT !.maxGoroutines = opt.value]
    ELSE IF opt.option = "MaxHeapMB" THEN [c EXCEPT !.maxHeapMB = opt.value]
    ELSE IF opt.option = "RetryCount" THEN [c EXCEPT !.retryCount = opt.value]
    ELSE IF opt.option = "IgnoreTopFunction"
        THEN [c EXCEPT !.ignoreFuncs = Append(@, opt.value)]
    ELSE [c EXCEPT !.ignoreContains = Append(@, opt.value)]

\* cfg := defaultConfig(); for _, opt := range opts { opt(cfg) }
RECURSIVE ApplyOptions(_, _)
ApplyOptions(c, opts) ==
    IF opts = <<>> THEN c ELSE ApplyOptions(ApplyOption(c, Head(opts)), Tail(opts))

shouldIgnore(g, c) ==
    \/ \E k \in 1..Len(c.ignoreFuncs) : strings_Contains(g.Stack, c.ignoreFuncs[k])
    \/ \E k \in 1..Len(c.ignoreContains) : strings_Contains(g.Stack, c.ignoreContains[k])

filterIgnored(lk, c) ==
    IF Len(c.ignoreFuncs) = 0 /\ Len(c.ignoreContains) = 0
    THEN lk
    ELSE SelectSeq(lk, LAMBDA g : ~shouldIgnore(g, c))

\* one megabyte, as the thresholds count it
MiB == 1024 * 1024

(***************************************************************************)
(* A test (or TestMain) that uses one of the entry points, on a Go runtime *)
(* whose goroutines start and exit and whose heap grows and shrinks.       *)
(*   "VerifyNone"     defer guard.VerifyNone(t, opts...) as first statement *)
(*   "Check"          g := guard.Check(t, opts...) first, g.Verify() last   *)
(*   "AssertNoLeak"   snapshot := runtime.TakeSnapshot();                   *)
(*                    defer snapshot.AssertNoLeakWithOptions(t, opts)       *)
(*   "VerifyTestMain" guard.VerifyTestMain(m, opts...) in TestMain          *)
(***************************************************************************)
Usages == {"VerifyNone", "Check", "AssertNoLeak", "VerifyTestMain"}

\* the option lists the tests pass to guard
GuardOptionLists ==
    {<<>>,
     <<RetryCount(1), MaxGoroutines(1)>>,
     <<RetryCount(2), MaxHeapMB(1)>>,
     <<RetryCount(1), MaxHeapMB(-1)>>,
     <<RetryCount(0)>>,
     <<RetryCount(0), MaxHeapMB(1)>>,
     <<RetryCount(2), IgnoreTopFunction("pkg.backgroundWorker")>>,
     <<RetryCount(1), IgnoreContains("main.worker")>>}

\* the Options the tests pass to AssertNoLeakWithOptions; AssertNoLeak
\* passes DefaultOptions
RuntimeOptions ==
    {DefaultOptions, Options(1, 0, 1), Options(0, 1, 2), Options(0, -1, 1), Options(0, 0, 0)}

\* values of MemStats.HeapAlloc
HeapLevels == {0, MiB, 2 * MiB}

\* the heap after runtime.GC() and the settle time: nothing above what was
\* allocated before
AfterGC(h) == {x \in HeapLevels : x <= h}

\* what m.Run() may return
ExitCodes == {0, 1, 2}

InitGuard ==
    /\ PipelineIdle
    /\ SuggestIdle
    /\ PoolIdle
    /\ usage \in Usages
    /\ gpc = IF usage = "VerifyNone" THEN "body" ELSE "start"
    /\ cfg \in IF usage = "AssertNoLeak"
               THEN RuntimeOptions
               ELSE {ApplyOptions(defaultConfig, opts) : opts \in GuardOptionLists}
    /\ goroutines \in {(1 :> TestGoroutine), (1 :> TestGoroutine) @@ (2 :> PoolGoroutine)}
    /\ nextID = FirstBodyID
    /\ heapAlloc = MiB
    /\ snapshot = <<>>
    /\ retry = 0
    /\ diff = <<>>
    /\ leaked = <<>>
    /\ errors = <<>>
    /\ comparisons = <<>>
    /\ exitCode = 0
    /\ exited = <<>>

\* the rest of the repository stands still while a test runs
NoRun == UNCHANGED <<pipelineVars, filterVars, suggestVars, poolVars>>

\* the test body (or a test under m.Run) starts a goroutine: go f()
Spawn ==
    /\ gpc = "body"
    /\ nextID < FirstBodyID + MaxSpawned
    /\ \E g \in InputGoroutines : goroutines' = goroutines @@ (nextID :> g)
    /\ nextID' = nextID + 1
    /\ NoRun
    /\ UNCHANGED <<usage, gpc, cfg, heapAlloc, snapshot, retry, diff, leaked, errors,
                   comparisons, exitCode, exited>>

\* a goroutine other than the test's returns
Exit ==
    /\ gpc \in {"body", "verify", "assert", "check"}
    /\ \E id \in DOMAIN goroutines \ {1} :
           goroutines' = [x \in DOMAIN goroutines \ {id} |-> goroutines[x]]
    /\ NoRun
    /\ UNCHANGED <<usage, gpc, cfg, nextID, heapAlloc, snapshot, retry, diff, leaked, errors,
                   comparisons, exitCode, exited>>

\* the test body allocates or drops memory
HeapChange ==
    /\ gpc = "body"
    /\ \E h \in HeapLevels \ {heapAlloc} : heapAlloc' = h
    /\ NoRun
    /\ UNCHANGED <<usage, gpc, cfg, goroutines, nextID, snapshot, retry, diff, leaked, errors,
                   comparisons, exitCode, exited>>

\* the deferred guard.VerifyNone(t, opts...) runs when the test function
\* returns: it takes the snapshot and registers the cleanup, which the
\* testing package runs next
VerifyNone ==
    /\ usage = "VerifyNone"
    /\ gpc = "body"
    /\ snapshot' = <<TakeSnapshot(goroutines, heapAlloc)>>
    /\ gpc' = "verify"
    /\ NoRun
    /\ UNCHANGED <<usage, cfg, goroutines, nextID, heapAlloc, retry, diff, leaked, errors,
                   comparisons, exitCode, exited>>

\* g := guard.Check(t, opts...) as the first statement of the test
Check ==
    /\ usage = "Check"
    /\ gpc = "start"
    /\ snapshot' = <<TakeSnapshot(goroutines, heapAlloc)>>
    /\ gpc' = "body"
    /\ NoRun
    /\ UNCHANGED <<usage, cfg, goroutines, nextID, heapAlloc, retry, diff, leaked, errors,
                   comparisons, exitCode, exited>>

\* g.Verify() as the last statement of the test
Guard_Verify ==
    /\ usage = "Check"
    /\ gpc = "body"
    /\ gpc' = "verify"
    /\ NoRun
    /\ UNCHANGED <<usage, cfg, goroutines, nextID, heapAlloc, snapshot, retry, diff, leaked,
                   errors, comparisons, exitCode, exited>>

\* what a comparison saw, for the record
Seen(d, lk) ==
    [Leaked          |-> Len(lk),
     GoroutineGrowth |-> d.GoroutineGrowth,
     HeapGrowthBytes |-> d.HeapGrowthBytes]

\* a call of t.Errorf (or a report on os.Stderr): its message and arguments
Errorf(msg, value, max) == [msg |-> msg, value |-> value, max |-> max]

\* verifyWithConfig: one turn of the retry loop
verifyWithConfig_Retry ==
    /\ gpc = "verify"
    /\ retry < cfg.retryCount
    /\ \E heap \in AfterGC(heapAlloc) :
          LET d           == Compare(snapshot[1], goroutines, heap)
              lk          == filterIgnored(d.LeakedGoroutines, cfg)
              goroutineOK == Len(lk) <= cfg.maxGoroutines
              heapOK      == cfg.maxHeapMB = 0 \/ d.HeapGrowthBytes <= cfg.maxHeapMB * MiB
          IN /\ heapAlloc' = heap
             /\ diff' = <<d>>
             /\ leaked' = lk
             /\ comparisons' = Append(comparisons, Seen(d, lk))
             /\ IF goroutineOK /\ heapOK
                THEN gpc' = "end" /\ retry' = retry
                ELSE gpc' = "verify" /\ retry' = retry + 1
    /\ NoRun
    /\ UNCHANGED <<usage, cfg, goroutines, nextID, snapshot, errors, exitCode, exited>>

\* verifyWithConfig: after the loop.  With no turn made diff is nil, and
\* reading diff.HeapGrowthBytes panics
verifyWithConfig_Report ==
    /\ gpc = "verify"
    /\ retry >= cfg.retryCount
    /\ LET goroutineLeak == IF Len(leaked) > cfg.maxGoroutines
                            THEN <<Errorf("heapcheck: goroutine leak detected",
                                          Len(leaked), cfg.maxGoroutines)>>
                            ELSE <<>>
       IN IF cfg.maxHeapMB > 0 /\ diff = <<>>
          THEN /\ errors' = errors \o goroutineLeak
               /\ gpc' = "panic"
          ELSE /\ errors' = errors \o goroutineLeak \o
                      (IF cfg.maxHeapMB > 0 /\ diff[1].HeapGrowthBytes > cfg.maxHeapMB * MiB
                       THEN <<Errorf("heapcheck: heap leak detected",
                                     diff[1].HeapGrowthBytes, cfg.maxHeapMB)>>
                       ELSE <<>>)
               /\ gpc' = "end"
    /\ NoRun
    /\ UNCHANGED <<usage, cfg, goroutines, nextID, heapAlloc, snapshot, retry, diff, leaked,
                   comparisons, exitCode, exited>>

\* snapshot := runtime.TakeSnapshot() as the first statement of the test
TakeSnapshotFirst ==
    /\ usage = "AssertNoLeak"
    /\ gpc = "start"
    /\ snapshot' = <<TakeSnapshot(goroutines, heapAlloc)>>
    /\ gpc' = "body"
    /\ NoRun
    /\ UNCHANGED <<usage, cfg, goroutines, nextID, heapAlloc, retry, diff, leaked, errors,
                   comparisons, exitCode, exited>>

\* the deferred snapshot.AssertNoLeak(t) (AssertNoLeakWithOptions with the
\* default or the given options) starts when the test function returns
AssertNoLeak ==
    /\ usage = "AssertNoLeak"
    /\ gpc = "body"
    /\ gpc' = "assert"
    /\ NoRun
    /\ UNCHANGED <<usage, cfg, goroutines, nextID, heapAlloc, snapshot, retry, diff, leaked,
                   errors, comparisons, exitCode, exited>>

\* AssertNoLeakWithOptions: one turn of the retry loop
AssertNoLeakWithOptions_Retry ==
    /\ gpc = "assert"
    /\ retry < cfg.RetryCount
    /\ \E heap \in AfterGC(heapAlloc) :
          LET d == Compare(snapshot[1], goroutines, heap)
          IN /\ heapAlloc' = heap
             /\ diff' = <<d>>
             /\ comparisons' = Append(comparisons, Seen(d, d.LeakedGoroutines))
             /\ IF /\ d.GoroutineGrowth <= cfg.MaxGoroutineGrowth
                   /\ (cfg.MaxHeapGrowthMB = 0
                       \/ d.HeapGrowthBytes <= cfg.MaxHeapGrowthMB * MiB)
                THEN gpc' = "end" /\ retry' = retry
                ELSE gpc' = "assert" /\ retry' = retry + 1
    /\ NoRun
    /\ UNCHANGED <<usage, cfg, goroutines, nextID, snapshot, leaked, errors, exitCode, exited>>

\* AssertNoLeakWithOptions: after the loop.  With no turn made diff is nil,
\* and reading diff.GoroutineGrowth panics
AssertNoLeakWithOptions_Report ==
    /\ gpc = "assert"
    /\ retry >= cfg.RetryCount
    /\ IF diff = <<>>
       THEN gpc' = "panic" /\ errors' = errors
       ELSE /\ errors' = errors \o
                   (IF diff[1].GoroutineGrowth > cfg.MaxGoroutineGrowth
                    THEN <<Errorf("goroutine leak detected", diff[1].GoroutineGrowth,
                                  cfg.MaxGoroutineGrowth)>>
                    ELSE <<>>) \o
                   (IF /\ cfg.MaxHeapGrowthMB > 0
                       /\ diff[1].HeapGrowthBytes > cfg.MaxHeapGrowthMB * MiB
                    THEN <<Errorf("heap leak detected", diff[1].HeapGrowthBytes,
                                  cfg.MaxHeapGrowthMB)>>
                    ELSE <<>>)
            /\ gpc' = "end"
    /\ NoRun
    /\ UNCHANGED <<usage, cfg, goroutines, nextID, heapAlloc, snapshot, retry, diff, leaked,
                   comparisons, exitCode, exited>>

\* exitCode of VerifyTestMain that is 1 whenever goroutines leaked
exitCodeAfterLeakAlwaysOne(code, lk, c) ==
    IF Len(lk) > c.maxGoroutines THEN 1 ELSE code

\* exitCode of VerifyTestMain after its leak check: a leak turns 0 into 1
exitCodeAfterLeak(code, lk, c) ==
    IF Len(lk) > c.maxGoroutines /\ code = 0 THEN 1 ELSE code

\* VerifyTestMain up to m.Run(): the config and the snapshot
VerifyTestMain_Snapshot ==
    /\ usage = "VerifyTestMain"
    /\ gpc = "start"
    /\ snapshot' = <<TakeSnapshot(goroutines, heapAlloc)>>
    /\ gpc' = "body"
    /\ NoRun
    /\ UNCHANGED <<usage, cfg, goroutines, nextID, heapAlloc, retry, diff, leaked, errors,
                   comparisons, exitCode, exited>>

\* exitCode := m.Run()
VerifyTestMain_Run ==
    /\ usage = "VerifyTestMain"
    /\ gpc = "body"
    /\ exitCode' \in ExitCodes
    /\ gpc' = "check"
    /\ NoRun
    /\ UNCHANGED <<usage, cfg, goroutines, nextID, heapAlloc, snapshot, retry, diff, leaked,
                   errors, comparisons, exited>>

\* VerifyTestMain after m.Run(): GC, settle, Compare, report on os.Stderr,
\* os.Exit.  exitCode keeps what m.Run() returned; exited is the code the
\* process exits with
VerifyTestMain_Check ==
    /\ gpc = "check"
    /\ \E heap \in AfterGC(heapAlloc) :
          LET d  == Compare(snapshot[1], goroutines, heap)
              lk == filterIgnored(d.LeakedGoroutines, cfg)
          IN /\ heapAlloc' = heap
             /\ diff' = <<d>>
             /\ leaked' = lk
             /\ comparisons' = Append(comparisons, Seen(d, lk))
             /\ errors' = IF Len(lk) > cfg.maxGoroutines
                          THEN Append(errors,
                                      Errorf("heapcheck: goroutine leak detected after tests",
                                             Len(lk), cfg.maxGoroutines))
                          ELSE errors
             /\ exited' = <<exitCodeAfterLeak(exitCode, lk, cfg)>>
    /\ gpc' = "exited"
    /\ NoRun
    /\ UNCHANGED <<usage, cfg, goroutines, nextID, snapshot, retry, exitCode>>

NextGuard ==
    \/ Spawn \/ Exit \/ HeapChange
    \/ VerifyNone \/ Check \/ Guard_Verify
    \/ verifyWithConfig_Retry \/ verifyWithConfig_Report
    \/ TakeSnapshotFirst \/ AssertNoLeak
    \/ AssertNoLeakWithOptions_Retry \/ AssertNoLeakWithOptions_Report
    \/ VerifyTestMain_Snapshot \/ VerifyTestMain_Run \/ VerifyTestMain_Check

SpecGuard == InitGuard /\ [][NextGuard]_vars

(***************************************************************************)
(* examples/worker-pool: WorkerPool.  One goroutine creates the pool,      *)
(* starts it, submits n tasks and closes it; the workers are goroutines;   *)
(* one goroutine ranges over Results(); the context may be cancelled at    *)
(* any moment.  A channel of capacity 0 passes an element only from a      *)
(* sender to a receiver that waits.                                        *)
(***************************************************************************)
\* the most workers of a pool
MaxWorkers == 2
\* the largest bufferSize of a pool
MaxBuffer == 1
\* the most tasks submitted
MaxTasks == 2

Task(id) == [ID |-> id, Payload |-> "task" \o ToString(id)]

Result(taskID, out) == [TaskID |-> taskID, Output |-> out]

\* processOne that gives every result the TaskID 1
processOneFixedID(task) == Result(1, task.Payload)

processOne(task) == Result(task.ID, task.Payload)

\* NewWorkerPool(workers, bufferSize), and the number of tasks its user submits
NewWorkerPool(n, bufferSize, count) == [workers |-> n, bufferSize |-> bufferSize, n |-> count]

\* a worker goroutine: where it stands and the result it is about to send
Worker(at, result) == [pc |-> at, result |-> result]

\* the rest of the repository stands still while the pool runs
NoTest == UNCHANGED <<pipelineVars, filterVars, suggestVars, guardVars>>

InitPool ==
    /\ PipelineIdle
    /\ SuggestIdle
    /\ GuardIdle
    /\ pool \in {NewWorkerPool(n, b, c) : n \in 0..MaxWorkers, b \in 0..MaxBuffer, c \in 0..MaxTasks}
    /\ tasks = Chan(<<>>, FALSE)
    /\ poolResults = Chan(<<>>, FALSE)
    /\ workers = <<>>
    /\ wg = 0
    /\ ctxDone = FALSE
    /\ mpc = "new"
    /\ submitted = 0
    /\ cpc = "idle"
    /\ received = <<>>

\* pool.Start(ctx): p.wg.Add(1) and go p.worker(ctx) for every worker
Start ==
    /\ mpc = "new"
    /\ workers' = [i \in 1..pool.workers |-> Worker("select", <<>>)]
    /\ wg' = wg + pool.workers
    /\ mpc' = "submit"
    /\ NoTest
    /\ UNCHANGED <<pool, tasks, poolResults, ctxDone, submitted, cpc, received>>

\* cancel(): the context is cancelled, by whoever holds the cancel function
Cancel ==
    /\ mpc # "new"
    /\ ~ctxDone
    /\ ctxDone' = TRUE
    /\ NoTest
    /\ UNCHANGED <<pool, tasks, poolResults, workers, wg, mpc, submitted, cpc, received>>

\* pool.Submit(task): p.tasks <- task; it waits while the buffer is full,
\* and with capacity 0 until a worker waits in its select
Submit ==
    /\ mpc = "submit"
    /\ submitted < pool.n
    /\ ~tasks.closed
    /\ LET task == Task(submitted + 1)
       IN \/ /\ Len(tasks.buf) < pool.bufferSize
             /\ tasks' = [tasks EXCEPT !.buf = Append(@, task)]
             /\ workers' = workers
          \/ /\ pool.bufferSize = 0
             /\ \E w \in DOMAIN workers :
                   /\ workers[w].pc = "select"
                   /\ workers' = [workers EXCEPT ![w] = Worker("send", <<processOne(task)>>)]
             /\ tasks' = tasks
    /\ submitted' = submitted + 1
    /\ NoTest
    /\ UNCHANGED <<pool, poolResults, wg, ctxDone, mpc, cpc, received>>

\* worker: case <-ctx.Done(): return; the deferred p.wg.Done() runs
worker_Done(w) ==
    /\ workers[w].pc = "select"
    /\ ctxDone
    /\ workers' = [workers EXCEPT ![w] = Worker("done", <<>>)]
    /\ wg' = wg - 1
    /\ NoTest
    /\ UNCHANGED <<pool, tasks, poolResults, ctxDone, mpc, submitted, cpc, received>>

\* worker: case task, ok := <-p.tasks with a task in the buffer:
\* result := processOne(task)
worker_Receive(w) ==
    /\ workers[w].pc = "select"
    /\ tasks.buf # <<>>
    /\ workers' = [workers EXCEPT ![w] = Worker("send", <<processOne(Head(tasks.buf))>>)]
    /\ tasks' = [tasks EXCEPT !.buf = Tail(@)]
    /\ NoTest
    /\ UNCHANGED <<pool, poolResults, wg, ctxDone, mpc, submitted, cpc, received>>

\* worker: case task, ok := <-p.tasks on the closed and empty channel:
\* !ok, return
worker_Closed(w) ==
    /\ workers[w].pc = "select"
    /\ tasks.buf = <<>>
    /\ tasks.closed
    /\ workers' = [workers EXCEPT ![w] = Worker("done", <<>>)]
    /\ wg' = wg - 1
    /\ NoTest
    /\ UNCHANGED <<pool, tasks, poolResults, ctxDone, mpc, submitted, cpc, received>>

\* worker: p.results <- result, outside the select: it waits while the
\* buffer is full, and with capacity 0 until the reader waits; a send on a
\* closed channel panics
worker_Send(w) ==
    /\ workers[w].pc = "send"
    /\ IF poolResults.closed
       THEN /\ workers' = [workers EXCEPT ![w] = Worker("panic", <<>>)]
            /\ UNCHANGED <<poolResults, received>>
       ELSE /\ workers' = [workers EXCEPT ![w] = Worker("select", <<>>)]
            /\ \/ /\ Len(poolResults.buf) < pool.bufferSize
                  /\ poolResults' = [poolResults EXCEPT !.buf = Append(@, workers[w].result[1])]
                  /\ received' = received
               \/ /\ pool.bufferSize = 0
                  /\ cpc = "range"
                  /\ received' = Append(received, workers[w].result[1])
                  /\ poolResults' = poolResults
    /\ NoTest
    /\ UNCHANGED <<pool, tasks, wg, ctxDone, mpc, submitted, cpc>>

\* pool.Close(): close(p.tasks), after the last Submit
Close ==
    /\ mpc = "submit"
    /\ submitted = pool.n
    /\ tasks' = [tasks EXCEPT !.closed = TRUE]
    /\ mpc' = "wait"
    /\ NoTest
    /\ UNCHANGED <<pool, poolResults, workers, wg, ctxDone, submitted, cpc, received>>

\* pool.Close(): p.wg.Wait() returns when the counter is zero, then
\* close(p.results)
Close_Wait ==
    /\ mpc = "wait"
    /\ wg = 0
    /\ poolResults' = [poolResults EXCEPT !.closed = TRUE]
    /\ mpc' = "closed"
    /\ NoTest
    /\ UNCHANGED <<pool, tasks, workers, wg, ctxDone, submitted, cpc, received>>

\* go func() { for r := range pool.Results() { ... } }()
Results_Range ==
    /\ mpc # "new"
    /\ cpc = "idle"
    /\ cpc' = "range"
    /\ NoTest
    /\ UNCHANGED <<pool, tasks, poolResults, workers, wg, ctxDone, mpc, submitted, received>>

\* the range receives a buffered result
Results_Receive ==
    /\ cpc = "range"
    /\ poolResults.buf # <<>>
    /\ received' = Append(received, Head(poolResults.buf))
    /\ poolResults' = [poolResults EXCEPT !.buf = Tail(@)]
    /\ NoTest
    /\ UNCHANGED <<pool, tasks, workers, wg, ctxDone, mpc, submitted, cpc>>

\* the range ends: the channel is closed and empty
Results_Closed ==
    /\ cpc = "range"
    /\ poolResults.buf = <<>>
    /\ poolResults.closed
    /\ cpc' = "done"
    /\ NoTest
    /\ UNCHANGED <<pool, tasks, poolResults, workers, wg, ctxDone, mpc, submitted, received>>

\* a step of a worker goroutine
worker(w) == worker_Done(w) \/ worker_Receive(w) \/ worker_Closed(w) \/ worker_Send(w)

NextPool ==
    \/ Start
    \/ Cancel
    \/ Submit
    \/ Close
    \/ Close_Wait
    \/ Results_Range
    \/ Results_Receive
    \/ Results_Closed
    \/ \E w \in DOMAIN workers : worker_Done(w)
    \/ \E w \in DOMAIN workers : worker_Receive(w)
    \/ \E w \in DOMAIN workers : worker_Closed(w)
    \/ \E w \in DOMAIN workers : worker_Send(w)

SpecPool == InitPool /\ [][NextPool]_vars

\* the Go scheduler runs every goroutine that can take a step: the workers,
\* the goroutine that fills and closes the pool, and the reader once it has
\* been started.  Whether the context is cancelled and whether a reader is
\* started is up to the program.
FairPool ==
    /\ WF_vars(Start)
    /\ WF_vars(Submit)
    /\ WF_vars(Close)
    /\ WF_vars(Close_Wait)
    /\ WF_vars(Results_Receive)
    /\ WF_vars(Results_Closed)
    /\ \A w \in 1..MaxWorkers : WF_vars(w \in DOMAIN workers /\ worker(w))

SpecPoolFair == InitPool /\ [][NextPool]_vars /\ FairPool

(***************************************************************************)
(* Vocabulary of the properties.                                           *)
(***************************************************************************)
HeapTypes == {MovedToHeap, EscapesToHeap, LeakingParam}

IsHeapBound(e) == e.EscapeType \in HeapTypes

\* the sum of the values of a map
RECURSIVE SumOver(_, _)
SumOver(m, keys) ==
    IF keys = {} THEN 0
    ELSE LET k == CHOOSE x \in keys : TRUE IN m[k] + SumOver(m, keys \ {k})

SumValues(m) == SumOver(m, DOMAIN m)

\* the number of records of a list that satisfy Test
CountIf(infos, Test(_)) == Len(SelectSeq(infos, Test))

IsUnknown(e) == e.EscapeType = Unknown

Categorized == pc = "done"

TheResults == results[1]

\* the records inside the Escapes list, in its order
RECURSIVE InfosFrom(_, _)
InfosFrom(list, i) ==
    IF i > Len(list) THEN <<>> ELSE <<list[i].Info>> \o InfosFrom(list, i + 1)

EscapeInfos(r) == InfosFrom(r.Escapes, 1)

(***************************************************************************)
(* Categorize: counts, maps and the Escapes list.                          *)
(***************************************************************************)
\* C1, as stated: after Categorize, for every list of records, also one with
\* records of kind Unknown, TotalVariables = StackAllocated + HeapAllocated +
\* Inlined.
C1_TotalIsSumOfBuckets ==
    Categorized =>
        TheResults.Summary.TotalVariables =
            TheResults.Summary.StackAllocated + TheResults.Summary.HeapAllocated
                + TheResults.Summary.Inlined

\* C1, amended: TotalVariables counts every record, and exceeds
\* StackAllocated + HeapAllocated + Inlined by exactly the number of records
\* of kind Unknown; the three buckets add up to the total for every list
\* without such a record.
C1_TotalIsBucketsPlusUnknown ==
    Categorized =>
        /\ TheResults.Summary.TotalVariables = Len(escapes)
        /\ TheResults.Summary.TotalVariables =
              TheResults.Summary.StackAllocated + TheResults.Summary.HeapAllocated
                  + TheResults.Summary.Inlined + CountIf(escapes, IsUnknown)

C1_Witness ==
    /\ Categorized
    /\ Len(escapes) = 3
    /\ CountIf(escapes, IsUnknown) = 1
    /\ TheResults.Summary.HeapAllocated = 1
    /\ TheResults.Summary.Inlined = 1

\* C2: after Categorize the values of ByCategory add up to HeapAllocated, and
\* every key of ByCategory is one of the 19 categories, counted at least once.
C2_ByCategorySumsToHeap ==
    Categorized =>
        /\ SumValues(TheResults.ByCategory) = TheResults.Summary.HeapAllocated
        /\ DOMAIN TheResults.ByCategory \subseteq Categories
        /\ Cardinality(Categories) = 19
        /\ \A cat \in DOMAIN TheResults.ByCategory : TheResults.ByCategory[cat] >= 1

C2_Witness ==
    /\ Categorized
    /\ TheResults.Summary.HeapAllocated = 3
    /\ \E c1 \in DOMAIN TheResults.ByCategory, c2 \in DOMAIN TheResults.ByCategory :
          c1 # c2 /\ TheResults.ByCategory[c1] = 2 /\ TheResults.ByCategory[c2] = 1

\* C3: after Categorize the values of ByFile add up to HeapAllocated, and the
\* keys of ByFile are exactly the files of the heap-bound records.
C3_ByFileSumsToHeap ==
    Categorized =>
        /\ SumValues(TheResults.Summary.ByFile) = TheResults.Summary.HeapAllocated
        /\ DOMAIN TheResults.Summary.ByFile =
              {escapes[i].File : i \in {j \in 1..Len(escapes) : IsHeapBound(escapes[j])}}

C3_Witness ==
    /\ Categorized
    /\ \E i \in 1..Len(escapes) :
          ~IsHeapBound(escapes[i]) /\ escapes[i].File \notin DOMAIN TheResults.Summary.ByFile
    /\ \E f \in DOMAIN TheResults.Summary.ByFile : TheResults.Summary.ByFile[f] = 2

\* C4: the Escapes list holds exactly the heap-bound records of the input
\* (MovedToHeap, EscapesToHeap, LeakingParam), each once and in input order,
\* so it is HeapAllocated long; no other record is in it.
C4_EscapesAreTheHeapBound ==
    Categorized =>
        /\ EscapeInfos(TheResults) = SelectSeq(escapes, IsHeapBound)
        /\ Len(TheResults.Escapes) = TheResults.Summary.HeapAllocated

C4_Witness ==
    /\ Categorized
    /\ Len(escapes) = 3
    /\ escapes[1].EscapeType = LeakingParam
    /\ escapes[2].EscapeType = DoesNotEscape
    /\ escapes[3].EscapeType = MovedToHeap
    /\ Len(TheResults.Escapes) = 2

\* C9: every record in Escapes has one of the 19 categories, the one
\* categorize gives its record, and carries the suggestion of that category.
C9_OneCategoryAndItsSuggestion ==
    Categorized =>
        \A i \in 1..Len(TheResults.Escapes) :
            LET ce == TheResults.Escapes[i]
            IN /\ ce.Category \in Categories
               /\ ce.Category = categorize(ce.Info)
               /\ ce.Suggestion = suggestions[ce.Category]
               /\ ce.Suggestion.Short # "" /\ ce.Suggestion.Details # ""

C9_Witness ==
    /\ Categorized
    /\ Len(TheResults.Escapes) = 3
    /\ TheResults.Escapes[1].Category = CategoryUncategorized
    /\ TheResults.Escapes[2].Category = CategoryInterfaceBoxing
    /\ TheResults.Escapes[3].Category = CategoryLeakingParam

(***************************************************************************)
(* Parse: vocabulary.  The lines of a text and its header and continuation *)
(* lines are defined here from the text, not from Parse's loop.            *)
(***************************************************************************)
RECURSIVE LinesOf(_)
LinesOf(text) ==
    IF text = "" THEN <<>>
    ELSE LET newline == IndexFrom(text, "\n", 1)
         IN IF newline = 0 THEN <<text>>
            ELSE <<SubSeq(text, 1, newline - 1)>> \o LinesOf(Suffix(text, newline + 1))

IsHeaderLine(l) ==
    \/ movedToHeapRe(l) # <<>> \/ escapesToHeapRe(l) # <<>> \/ doesNotEscapeRe(l) # <<>>
    \/ leakingParamRe(l) # <<>> \/ canInlineRe(l) # <<>> \/ inliningCallRe(l) # <<>>

IsContinuationLine(l) == ~IsHeaderLine(l) /\ (flowRe(l) \/ fromRe(l))

\* a line Parse has no use for: blank, or matching none of the eight patterns
IsNoiseLine(l) == strings_TrimSpace(l) = "" \/ (~IsHeaderLine(l) /\ ~flowRe(l) /\ ~fromRe(l))

\* every line fits the scanner's buffer
FitsScanner(l) == ByteLen(l) < MaxScanTokenSize

AllFit(ls) == \A i \in 1..Len(ls) : FitsScanner(ls[i])

\* Parse has just returned
ParseReturned == pc \in {"categorize", "failed"}

RECURSIVE ReasonsFrom(_, _)
ReasonsFrom(infos, i) ==
    IF i > Len(infos) THEN <<>> ELSE <<infos[i].Reason>> \o ReasonsFrom(infos, i + 1)

\* the lines the records of a list were made from (Reason is the line)
Reasons(infos) == ReasonsFrom(infos, 1)

\* the elements of a set of numbers in ascending order
RECURSIVE Ascending(_)
Ascending(S) == IF S = {} THEN <<>> ELSE <<Min(S)>> \o Ascending(S \ {Min(S)})

\* the indices of the header lines of a list of lines, ascending
HeaderIndices(ls) == Ascending({i \in 1..Len(ls) : IsHeaderLine(ls[i])})

\* the trimmed continuation lines among ls[from..to]
RECURSIVE ContinuationsIn(_, _, _)
ContinuationsIn(ls, from, to) ==
    IF from > to THEN <<>>
    ELSE (IF IsContinuationLine(ls[from]) THEN <<strings_TrimSpace(ls[from])>> ELSE <<>>)
             \o ContinuationsIn(ls, from + 1, to)

\* the continuation lines between the k-th header line and the next one;
\* hs is HeaderIndices(ls)
FlowOfHeader(ls, hs, k) ==
    ContinuationsIn(ls, hs[k] + 1, IF k = Len(hs) THEN Len(ls) ELSE hs[k + 1] - 1)

\* the text with the line l put before its p-th line (after the last: p = n + 1)
WithLineAt(text, p, l) ==
    LET ls == LinesOf(text)
    IN strings_Join(SubSeq(ls, 1, p - 1) \o <<l>> \o SubSeq(ls, p, Len(ls)), "\n")

NoiseLines == {l \in {" \t", "<autogenerated>", "a.go:1:2: note", Filler} : IsNoiseLine(l)}

C6_FlowGoesToNearestHeader ==
    ParseReturned =>
        LET ls == LinesOf(output)
            hs == HeaderIndices(ls)
        IN \A k \in 1..Len(escapes) : escapes[k].FlowInfo = FlowOfHeader(ls, hs, k)

C6_Witness ==
    /\ ParseReturned
    /\ Len(LinesOf(output)) = 3
    /\ IsHeaderLine(LinesOf(output)[1])
    /\ IsHeaderLine(LinesOf(output)[2])
    /\ IsContinuationLine(LinesOf(output)[3])
    /\ Len(escapes) = 2
    /\ escapes[1].FlowInfo = <<>>
    /\ Len(escapes[2].FlowInfo) = 1

\* the output leaves room for one more line within MaxLines
RoomForNoise == ParseReturned /\ previous = <<>> /\ Len(LinesOf(output)) < MaxLines

CombinedText(e) ==
    strings_ToLower(e.Reason) \o " " \o strings_ToLower(strings_Join(e.FlowInfo, " "))

\* a keyword of one of the rules before the leaking-param rule occurs
HasEarlierKeyword(e) ==
    LET combined == CombinedText(e)
    IN \/ strings_Contains(combined, "from return") /\ strings_Contains(combined, "&")
       \/ strings_Contains(combined, "address-of") /\ strings_Contains(combined, "return")
       \/ \E w \in {"interface", "closure", "captured", "go func", "goroutine", "chan",
                    "append", "non-constant", "too large", "fmt.", "reflect"} :
              strings_Contains(combined, w)

\* the categories of the rules up to and including the leaking-param rule
CategoriesUpToLeakingParam ==
    {CategoryReturnPointer, CategoryInterfaceBoxing, CategoryClosureCapture,
     CategoryGoroutineEscape, CategoryChannelSend, CategorySliceGrow, CategoryUnknownSize,
     CategoryTooLarge, CategoryFmtCall, CategoryReflection, CategoryLeakingParam}

CategoriesIn(list) == {list[i].Category : i \in 1..Len(list)}

\* C20: a LeakingParam record without a keyword of an earlier rule is
\* return-pointer if its message contains "to result", else interface-boxing
\* if it contains "content", else leaking-param; and no LeakingParam record
\* gets a category that only a rule after the leaking-param rule gives.
C20_LeakingParamRule ==
    Categorized =>
        \A k \in 1..Len(TheResults.Escapes) :
            LET e      == TheResults.Escapes[k].Info
                cat    == TheResults.Escapes[k].Category
                reason == strings_ToLower(e.Reason)
            IN e.EscapeType = LeakingParam =>
                  /\ cat \in CategoriesUpToLeakingParam
                  /\ ~HasEarlierKeyword(e) =>
                        cat = IF strings_Contains(reason, "to result")
                                 THEN CategoryReturnPointer
                              ELSE IF strings_Contains(reason, "content")
                                 THEN CategoryInterfaceBoxing
                              ELSE CategoryLeakingParam
                  /\ (cat = CategoryLeakingParam) =>
                        ~(strings_Contains(reason, "to result")
                          \/ strings_Contains(reason, "content"))

C20_Witness ==
    /\ Categorized
    /\ Len(TheResults.Escapes) = 3
    /\ \A k \in 1..3 : /\ TheResults.Escapes[k].Info.EscapeType = LeakingParam
                       /\ ~HasEarlierKeyword(TheResults.Escapes[k].Info)
    /\ CategoriesIn(TheResults.Escapes) =
          {CategoryReturnPointer, CategoryInterfaceBoxing, CategoryLeakingParam}

(***************************************************************************)
(* Empty input.                                                            *)
(***************************************************************************)
\* C11: the empty string parses to no records and no error, and Categorize
\* of an empty record list returns all four counts 0, empty ByFile and
\* ByCategory maps and an empty Escapes list.
C11_EmptyInputIsValid ==
    /\ (ParseReturned /\ output = "") => (escapes = <<>> /\ err = "" /\ pc = "categorize")
    /\ (Categorized /\ escapes = <<>>) =>
          /\ TheResults.Summary.TotalVariables = 0
          /\ TheResults.Summary.StackAllocated = 0
          /\ TheResults.Summary.HeapAllocated = 0
          /\ TheResults.Summary.Inlined = 0
          /\ DOMAIN TheResults.Summary.ByFile = {}
          /\ DOMAIN TheResults.ByCategory = {}
          /\ TheResults.Escapes = <<>>

C11_Witness ==
    /\ pc = "done"
    /\ output = ""
    /\ escapes = <<>>
    /\ err = ""
    /\ TheResults.Summary.TotalVariables = 0

(***************************************************************************)
(* The filters of run.                                                     *)
(***************************************************************************)
\* a is b with some of its elements left out
RECURSIVE SubsequenceFrom(_, _, _, _)
SubsequenceFrom(a, i, b, j) ==
    IF i > Len(a) THEN TRUE
    ELSE IF j > Len(b) THEN FALSE
    ELSE IF a[i] = b[j] THEN SubsequenceFrom(a, i + 1, b, j + 1)
    ELSE SubsequenceFrom(a, i, b, j + 1)

IsSubsequence(a, b) == SubsequenceFrom(a, 1, b, 1)

FiltersStarted == pc \in {"filterpkg", "report"}

KindsIn(list) == {list[i].Info.EscapeType : i \in 1..Len(list)}

IsHeapBoundEscape(ce) == IsHeapBound(ce.Info)

IsEscapeToHeap(ce) == ce.Info.EscapeType \in {MovedToHeap, EscapesToHeap}

\* C12: every Results a filter returned has the Summary (counts and ByFile)
\* and the ByCategory of the unfiltered Results, its Escapes is the unfiltered
\* Escapes with some elements left out, and the unfiltered Results is still
\* what Categorize returned.
C12_FiltersChangeOnlyEscapes ==
    FiltersStarted =>
        /\ results = <<Categorize(escapes)>>
        /\ \A k \in 1..Len(filtered) :
              /\ filtered[k].Summary = TheResults.Summary
              /\ filtered[k].ByCategory = TheResults.ByCategory
              /\ IsSubsequence(filtered[k].Escapes, TheResults.Escapes)
              /\ IsSubsequence(filtered[k].Escapes,
                               IF k = 1 THEN TheResults.Escapes ELSE filtered[k - 1].Escapes)

C12_Witness ==
    /\ pc = "report"
    /\ Len(filtered) = 2
    /\ Len(TheResults.Escapes) = 3
    /\ Len(filtered[1].Escapes) = 2
    /\ Len(filtered[2].Escapes) = 1
    /\ filtered[2].Summary.HeapAllocated = 3

C19_GetSuggestionAnswersEveryCategory ==
    /\ Cardinality(Categories) = 19
    /\ \A k \in 1..Len(suggested) :
          LET cat == suggested[k].Category
              s   == suggested[k].Suggestion
          IN /\ cat \in Categories =>
                    (s = suggestions[cat] /\ s.Short # "" /\ s.Details # "")
             /\ cat \notin Categories => s = suggestions[CategoryUncategorized]
             /\ s.Short # ""
             /\ s.Details # ""

C19_Witness ==
    /\ Len(suggested) = 2
    /\ suggested[1].Category = CategoryCompositeLiteral
    /\ suggested[2].Category = "Return-Pointer"
    /\ suggested[1].Suggestion # suggested[2].Suggestion
    /\ suggested[2].Suggestion.Short = "Review escape flow details"

(***************************************************************************)
(* Leak checks of packages guard and runtime.                              *)
(***************************************************************************)
\* the goroutines the test body started that still run
StillRunningFromBody == {id \in DOMAIN goroutines : id >= FirstBodyID}

\* some call of t.Errorf had the message msg
Reported(msg) == \E k \in 1..Len(errors) : errors[k].msg = msg

\* the function on top of a goroutine's stack: the line below the header
TopFrame(stack) == LinesOf(stack)[2]

\* the top function of the stack is fn
TopFunctionMatches(stack, fn) == HasAt(TopFrame(stack), 1, fn \o "(")

Member(x, list) == \E k \in 1..Len(list) : list[k] = x

\* C14, as stated: with defer guard.VerifyNone(t) as first statement and the
\* default options, the baseline is taken before the test body ran, and a
\* goroutine the body started that still runs when the cleanup has run, and
\* matches no expected pattern, has been reported with t.Errorf.
C14_DeferredVerifyNoneReportsLeak ==
    (usage = "VerifyNone" /\ cfg = defaultConfig /\ gpc = "end") =>
        /\ snapshot[1].GoroutineIDs \cap (FirstBodyID..(nextID - 1)) = {}
        /\ (\E id \in StillRunningFromBody : ~isExpected[StackOf(id, goroutines[id])])
              => Reported("heapcheck: goroutine leak detected")

\* C15, as stated: when a goroutine that did not exist at snapshot time is
\* alive through all retries of AssertNoLeak, a goroutine leak is reported,
\* also when goroutines of snapshot time have exited.
C15_AssertNoLeakReportsNewGoroutine ==
    (usage = "AssertNoLeak" /\ cfg = DefaultOptions /\ gpc = "end"
        /\ DOMAIN goroutines \ snapshot[1].GoroutineIDs # {})
        => Reported("goroutine leak detected")

\* the comparison c is within the thresholds of the check
WithinThresholds(c) ==
    IF usage = "AssertNoLeak"
    THEN /\ c.GoroutineGrowth <= cfg.MaxGoroutineGrowth
         /\ (cfg.MaxHeapGrowthMB = 0 \/ c.HeapGrowthBytes <= cfg.MaxHeapGrowthMB * MiB)
    ELSE /\ c.Leaked <= cfg.maxGoroutines
         /\ (cfg.maxHeapMB = 0 \/ c.HeapGrowthBytes <= cfg.maxHeapMB * MiB)

RetriesOf(c) == IF usage = "AssertNoLeak" THEN c.RetryCount ELSE c.retryCount

\* the values an Errorf of the check may show for the comparison c
ValuesOf(c) ==
    {IF usage = "AssertNoLeak" THEN c.GoroutineGrowth ELSE c.Leaked, c.HeapGrowthBytes}

\* C16, as stated: with RetryCount n >= 1 the check makes at most n
\* comparisons, stops without Errorf at the first one within the thresholds,
\* calls Errorf at least once exactly when all n comparisons exceeded a
\* threshold, and reports the values of the last comparison.
C16_RetriesBeforeReporting ==
    (usage \in {"VerifyNone", "Check", "AssertNoLeak"} /\ RetriesOf(cfg) >= 1) =>
        /\ Len(comparisons) <= RetriesOf(cfg)
        /\ \A k \in 1..(Len(comparisons) - 1) : ~WithinThresholds(comparisons[k])
        /\ gpc = "end" =>
              /\ comparisons # <<>>
              /\ WithinThresholds(comparisons[Len(comparisons)]) => errors = <<>>
              /\ errors # <<>> <=>
                    /\ Len(comparisons) = RetriesOf(cfg)
                    /\ \A k \in 1..Len(comparisons) : ~WithinThresholds(comparisons[k])
              /\ \A k \in 1..Len(errors) :
                    errors[k].value \in ValuesOf(comparisons[Len(comparisons)])

\* C17, as stated: with IgnoreTopFunction(fn) a leaked goroutine is taken
\* off the leak list only if the function on top of its stack is fn; one
\* that has fn deeper in its stack stays on the list.
C17_IgnoreTopFunctionLooksAtTopOnly ==
    (usage \in {"VerifyNone", "Check", "VerifyTestMain"} /\ diff # <<>>
        /\ cfg.ignoreFuncs # <<>> /\ cfg.ignoreContains = <<>>) =>
        \A k \in 1..Len(diff[1].LeakedGoroutines) :
            LET g == diff[1].LeakedGoroutines[k]
            IN ~Member(g, leaked) =>
                  \E f \in 1..Len(cfg.ignoreFuncs) :
                      TopFunctionMatches(g.Stack, cfg.ignoreFuncs[f])

\* the leaked goroutines no ignore pattern matches, counted on the process
\* as it exits
NonIgnoredLeaked ==
    {id \in DOMAIN goroutines \ snapshot[1].GoroutineIDs :
        LET g == GoroutineInfo(id, goroutines[id])
        IN ~isExpected[g.Stack] /\ ~shouldIgnore(g, cfg)}

\* C18: VerifyTestMain exits with the code of m.Run() when that is not 0 or
\* at most MaxGoroutines goroutines leaked, and with 1 when m.Run() returned
\* 0 and more leaked; no comparison is made before m.Run() has returned and
\* exactly one has been made when the process exits.
C18_VerifyTestMainExitCode ==
    usage = "VerifyTestMain" =>
        /\ gpc \in {"start", "body"} => (comparisons = <<>> /\ exited = <<>>)
        /\ gpc = "check" => (comparisons = <<>> /\ exited = <<>>)
        /\ gpc = "exited" =>
              /\ Len(comparisons) = 1
              /\ exited = <<IF exitCode # 0 \/ Cardinality(NonIgnoredLeaked) <= cfg.maxGoroutines
                            THEN exitCode
                            ELSE 1>>

C18_Witness ==
    /\ usage = "VerifyTestMain"
    /\ gpc = "exited"
    /\ exitCode = 0
    /\ exited = <<1>>
    /\ cfg.maxGoroutines = 1
    /\ Cardinality(NonIgnoredLeaked) = 2
    /\ Len(errors) = 1

(***************************************************************************)
(* The header patterns of Parse.                                           *)
(***************************************************************************)
\* the record the pattern of the kind k makes of the line l (none: <<>>)
HeaderOfKind(k, l) ==
    IF k = MovedToHeap THEN parseMovedToHeap(l)
    ELSE IF k = EscapesToHeap THEN parseEscapesToHeap(l)
    ELSE IF k = DoesNotEscape THEN parseDoesNotEscape(l)
    ELSE IF k = LeakingParam THEN parseLeakingParam(l)
    ELSE IF k = CanInline THEN parseCanInline(l)
    ELSE parseInliningCall(l)

\* the kinds in the order Parse tries their patterns
HeaderKinds == <<MovedToHeap, EscapesToHeap, DoesNotEscape, LeakingParam, CanInline,
                 InliningCall>>

\* the positions in HeaderKinds of the patterns the line l matches
MatchingPatterns(l) == {i \in 1..Len(HeaderKinds) : HeaderOfKind(HeaderKinds[i], l) # <<>>}

\* C21, as stated: no line of the input matches more than one of the six
\* header patterns, so that every order of trying them gives the record of a
\* line the same kind and subject.
C21_HeaderPatternsExclusive ==
    ParseReturned =>
        \A i \in 1..Len(LinesOf(output)) :
            LET l == LinesOf(output)[i]
            IN /\ Cardinality(MatchingPatterns(l)) <= 1
               /\ \A p, q \in MatchingPatterns(l) :
                     /\ HeaderOfKind(HeaderKinds[p], l)[1].EscapeType
                            = HeaderOfKind(HeaderKinds[q], l)[1].EscapeType
                     /\ HeaderOfKind(HeaderKinds[p], l)[1].Variable
                            = HeaderOfKind(HeaderKinds[q], l)[1].Variable

\* what Parse does with a line several header patterns match: the record has
\* the kind and the subject of the first pattern that matches in the order
\* moved-to-heap, escapes-to-heap, does-not-escape, leaking-param,
\* can-inline, inlining-call
FirstHeaderPatternDecides ==
    (ParseReturned /\ err = "") =>
        LET ls == LinesOf(output)
            hs == HeaderIndices(ls)
        IN /\ Len(escapes) = Len(hs)
           /\ \A k \in 1..Len(hs) :
                 LET l     == ls[hs[k]]
                     first == HeaderOfKind(HeaderKinds[Min(MatchingPatterns(l))], l)[1]
                 IN /\ escapes[k].EscapeType = first.EscapeType
                    /\ escapes[k].Variable = first.Variable

(***************************************************************************)
(* The flow details Parse keeps.                                           *)
(***************************************************************************)
\* where the prefix <file>:<line>:<col>: of a flow / from line ends
ContinuationPrefixEnd(l) ==
    Max(SpaceLitThenRest(l, "flow: ") \cup SpaceLitThenRest(l, "from "))

\* a flow / from line without its prefix, trimmed
TrimmedRemainder(l) == strings_TrimSpace(Suffix(l, ContinuationPrefixEnd(l) + 1))

\* the text holds a prefix <file>:<line>:<col>:
HoldsLocation(text) == LocEnds(text) # {}

\* C24, as stated: what Parse appends to the flow details of the open
\* record for a continuation line is the trimmed remainder of the line after
\* its <file>:<line>:<col>: prefix, so that no flow detail holds the
\* location prefix of its line.
C24_FlowDetailIsRemainder ==
    ParseReturned =>
        LET ls == LinesOf(output)
            hs == HeaderIndices(ls)
        IN \A k \in 1..Len(escapes) :
              LET lines == FlowOfHeader(ls, hs, k)
              IN /\ escapes[k].FlowInfo = [j \in 1..Len(lines) |-> TrimmedRemainder(lines[j])]
                 /\ \A j \in 1..Len(escapes[k].FlowInfo) :
                       ~HoldsLocation(escapes[k].FlowInfo[j])

(***************************************************************************)
(* The same diagnostics reported for another file.                         *)
(***************************************************************************)
\* paths a source file may have
OtherFiles == {"b.go", "chan.go", "pkg/interface.go"}

\* the line with the file of its prefix <file>:<line>:<col>: replaced by g
LineInFile(l, g) ==
    IF HasAt(l, 1, DiagnosticFile \o ":") THEN g \o Suffix(l, Len(DiagnosticFile) + 1) ELSE l

\* the compiler output with every prefix naming the file g
InFile(text, g) ==
    LET ls == LinesOf(text)
    IN strings_Join([i \in 1..Len(ls) |-> LineInFile(ls[i], g)], "\n")

\* the categories of a list of categorized records, in order
CategorySequence(list) == [i \in 1..Len(list) |-> list[i].Category]

\* C27, as stated: through Parse then Categorize, two compiler outputs that
\* differ only in the file path of their <file>:<line>:<col>: prefixes give
\* the same category to each corresponding record.
C27_CategoryIgnoresFilePath ==
    (pc = "done" /\ results # <<>>) =>
        \A g \in OtherFiles :
            LET other == Parse(InFile(output, g))
            IN /\ other.err = ""
               /\ Len(other.escapes) = Len(escapes)
               /\ CategorySequence(Categorize(other.escapes).Escapes)
                     = CategorySequence(results[1].Escapes)

(***************************************************************************)
(* The diagnostic "leaking param content:".                                *)
(***************************************************************************)
\* the line is <file>:<line>:<col>: leaking param content: <subject>
IsLeakingParamContentLine(l) == LitThenRest(l, "leaking param content: ") # {}

\* the lines of the output that are such a diagnostic
LeakingParamContentLines ==
    SelectSeq(LinesOf(output), IsLeakingParamContentLine)

\* the records among infos that Parse (or Categorize) has for such lines
RecordsOfLeakingParamContent(infos) ==
    SelectSeq(infos, LAMBDA e : IsLeakingParamContentLine(e.Reason))

\* C29, as stated: for a line <file>:<line>:<col>: leaking param content:
\* <subject> Parse returns a record of kind LeakingParam, Categorize counts
\* it in HeapAllocated, and, when no earlier keyword matches, its category is
\* interface-boxing.
C29_LeakingParamContentIsHeapBound ==
    /\ ParseReturned =>
          /\ Reasons(RecordsOfLeakingParamContent(escapes)) = LeakingParamContentLines
          /\ \A k \in 1..Len(escapes) :
                IsLeakingParamContentLine(escapes[k].Reason)
                    => escapes[k].EscapeType = LeakingParam
    /\ (pc = "done" /\ results # <<>>) =>
          LET listed == RecordsOfLeakingParamContent(EscapeInfos(results[1]))
          IN /\ Reasons(listed) = LeakingParamContentLines
             /\ results[1].Summary.HeapAllocated >= Len(LeakingParamContentLines)
             /\ \A k \in 1..Len(results[1].Escapes) :
                   LET ce == results[1].Escapes[k]
                   IN (IsLeakingParamContentLine(ce.Info.Reason) /\ ~HasEarlierKeyword(ce.Info))
                         => ce.Category = CategoryInterfaceBoxing

(***************************************************************************)
(* The rules of categorize.                                                *)
(***************************************************************************)
\* the flow details of a record as one lower-case text
FlowText(e) == strings_ToLower(strings_Join(e.FlowInfo, " "))

\* C22, as stated: every heap-bound record whose combined text (lower-case
\* message and flow details) contains both "from return" and "&" is
\* categorized return-pointer, wherever the two substrings occur.
C22_FromReturnAnywhere ==
    Categorized =>
        \A k \in 1..Len(TheResults.Escapes) :
            LET ce == TheResults.Escapes[k]
            IN (/\ strings_Contains(CombinedText(ce.Info), "from return")
                /\ strings_Contains(CombinedText(ce.Info), "&"))
                  => ce.Category = CategoryReturnPointer

\* C22, amended: rule 1 reads the flow details only.  Every heap-bound
\* record whose lower-case flow details, joined by blanks, contain both
\* "from return" and "&" is categorized return-pointer; the message of the
\* record is not searched by this rule.
C22_FromReturnInFlowDetails ==
    Categorized =>
        \A k \in 1..Len(TheResults.Escapes) :
            LET ce == TheResults.Escapes[k]
            IN (/\ strings_Contains(FlowText(ce.Info), "from return")
                /\ strings_Contains(FlowText(ce.Info), "&"))
                  => ce.Category = CategoryReturnPointer

C22_Witness ==
    /\ Categorized
    /\ Len(TheResults.Escapes) = 2
    /\ TheResults.Escapes[1].Info.FlowInfo = <<"from return &c">>
    /\ TheResults.Escapes[1].Category = CategoryReturnPointer
    /\ TheResults.Escapes[2].Info.Reason = "&T{} escapes to heap"
    /\ TheResults.Escapes[2].Info.FlowInfo = <<"from return r">>
    /\ TheResults.Escapes[2].Category = CategoryUncategorized

\* one of the two return-pointer rules matches the record
MatchesReturnPointerRule(e) ==
    \/ strings_Contains(FlowText(e), "from return") /\ strings_Contains(FlowText(e), "&")
    \/ strings_Contains(FlowText(e), "address-of") /\ strings_Contains(FlowText(e), "return")

\* a rule of the cascade: whether it matches, and the category it gives
Rule(matches, category) == [matches |-> matches, category |-> category]

\* the rules after the return-pointer rules, in the documented order, for
\* the record e
RulesInOrder(e) ==
    LET combined == CombinedText(e)
        reason   == strings_ToLower(e.Reason)
        flow     == FlowText(e)
        subject  == strings_ToLower(e.Variable)
        In(text, word) == strings_Contains(text, word)
    IN <<Rule(In(combined, "interface"), CategoryInterfaceBoxing),
         Rule(In(combined, "closure") \/ In(combined, "captured"), CategoryClosureCapture),
         Rule(In(combined, "go func") \/ In(combined, "goroutine"), CategoryGoroutineEscape),
         Rule(In(combined, "chan"), CategoryChannelSend),
         Rule(In(combined, "append"), CategorySliceGrow),
         Rule(In(combined, "non-constant"), CategoryUnknownSize),
         Rule(In(combined, "too large"), CategoryTooLarge),
         Rule(In(combined, "fmt."), CategoryFmtCall),
         Rule(In(combined, "reflect"), CategoryReflection),
         Rule(e.EscapeType = LeakingParam,
              IF In(reason, "to result") THEN CategoryReturnPointer
              ELSE IF In(reason, "content") THEN CategoryInterfaceBoxing
              ELSE CategoryLeakingParam),
         Rule(In(subject, "string("), CategoryStringConversion),
         Rule(In(flow, "spill"), CategorySpill),
         Rule(e.EscapeType = MovedToHeap /\ In(flow, "assign"), CategoryAssignment),
         Rule(e.EscapeType = MovedToHeap /\ In(flow, "call parameter"), CategoryCallParameter),
         Rule(In(subject, "...") \/ In(reason, "... argument"), CategoryInterfaceBoxing),
         Rule(In(subject, "make(map") \/ In(reason, "make(map"), CategoryMapAllocation),
         Rule(In(subject, "make([]") \/ In(reason, "make([]"), CategorySliceGrow),
         Rule(In(subject, "new(") \/ In(reason, "new("), CategoryNewAllocation),
         Rule(In(subject, "literal") \/ In(reason, "literal"), CategoryCompositeLiteral),
         Rule(In(reason, "&") /\ ~In(flow, "return"), CategoryCompositeLiteral),
         Rule(TRUE, CategoryUncategorized)>>

\* the rules of RulesInOrder that match the record, by position
MatchingRules(e) ==
    LET rules == RulesInOrder(e)
    IN {i \in 1..Len(rules) : rules[i].matches}

\* for each record of RuleRecords: whether a return-pointer rule matches it,
\* the positions of the later rules that match it, and the category of the
\* first of them
ruleTable ==
    [e \in RuleRecords |->
        LET rules == RulesInOrder(e)
            first == Min({i \in 1..Len(rules) : rules[i].matches})
        IN [returnPointer |-> MatchesReturnPointerRule(e),
            matching      |-> MatchingRules(e),
            category      |-> rules[first].category]]

\* C23: for a record that matches none of the return-pointer rules the
\* category is the one of the first rule that matches in the order
\* interface, closure/captured, go func/goroutine, chan, append,
\* non-constant, too large, fmt., reflect, leaking-param, string conversion,
\* spill, assignment, call-parameter (both for MovedToHeap only), variadic,
\* make(map, make([], new(, literal, &, and uncategorized when none matches.
C23_FirstMatchWins ==
    Categorized =>
        \A k \in 1..Len(TheResults.Escapes) :
            LET ce == TheResults.Escapes[k]
            IN ~ruleTable[ce.Info].returnPointer
                  => ce.Category = ruleTable[ce.Info].category

C23_Witness ==
    /\ Categorized
    /\ Len(TheResults.Escapes) = 2
    /\ {1, 2} \subseteq ruleTable[TheResults.Escapes[1].Info].matching
    /\ TheResults.Escapes[1].Category = CategoryInterfaceBoxing
    /\ {13, 14} \subseteq ruleTable[TheResults.Escapes[2].Info].matching
    /\ TheResults.Escapes[2].Category = CategoryAssignment

(***************************************************************************)
(* Merging the results of two calls of Categorize.                         *)
(***************************************************************************)
\* the count a Go map holds for a key: zero for a missing key
CountAt(m, k) == IF k \in DOMAIN m THEN m[k] ELSE 0

\* the key-wise sum of two maps of counts
SumOfMaps(m1, m2) == [k \in DOMAIN m1 \cup DOMAIN m2 |-> CountAt(m1, k) + CountAt(m2, k)]

\* two results merged: counters summed, record lists concatenated
MergedResults(a, b) ==
    [Summary    |-> [TotalVariables |-> a.Summary.TotalVariables + b.Summary.TotalVariables,
                     StackAllocated |-> a.Summary.StackAllocated + b.Summary.StackAllocated,
                     HeapAllocated  |-> a.Summary.HeapAllocated + b.Summary.HeapAllocated,
                     Inlined        |-> a.Summary.Inlined + b.Summary.Inlined,
                     ByFile         |-> SumOfMaps(a.Summary.ByFile, b.Summary.ByFile)],
     ByCategory |-> SumOfMaps(a.ByCategory, b.ByCategory),
     Escapes    |-> a.Escapes \o b.Escapes]

\* C25: for every way to cut the record list handed to Categorize into a
\* list A followed by a list B, the result is the results of Categorize(A)
\* and Categorize(B) merged: every count of the summary is the sum, ByFile and
\* ByCategory are the key-wise sums, and Escapes is the Escapes of A followed
\* by the Escapes of B.
C25_CategorizeMerges ==
    Categorized =>
        \A cut \in 0..Len(escapes) :
            LET A == SubSeq(escapes, 1, cut)
                B == SubSeq(escapes, cut + 1, Len(escapes))
                merged == MergedResults(Categorize(A), Categorize(B))
            IN /\ merged.Summary.TotalVariables = TheResults.Summary.TotalVariables
               /\ merged.Summary.StackAllocated = TheResults.Summary.StackAllocated
               /\ merged.Summary.HeapAllocated = TheResults.Summary.HeapAllocated
               /\ merged.Summary.Inlined = TheResults.Summary.Inlined
               /\ DOMAIN merged.Summary.ByFile = DOMAIN TheResults.Summary.ByFile
               /\ \A f \in DOMAIN merged.Summary.ByFile :
                     merged.Summary.ByFile[f] = TheResults.Summary.ByFile[f]
               /\ DOMAIN merged.ByCategory = DOMAIN TheResults.ByCategory
               /\ \A c \in DOMAIN merged.ByCategory :
                     merged.ByCategory[c] = TheResults.ByCategory[c]
               /\ merged.Escapes = TheResults.Escapes

C25_Witness ==
    /\ Categorized
    /\ Len(escapes) = 3
    /\ escapes[1] = escapes[2]
    /\ IsHeapBound(escapes[1])
    /\ escapes[3].EscapeType = DoesNotEscape
    /\ TheResults.Summary.ByFile[escapes[1].File] = 2
    /\ Len(TheResults.Escapes) = 2
    /\ TheResults.Summary.TotalVariables = 3

(***************************************************************************)
(* The retry loop that makes no turn.                                      *)
(***************************************************************************)
\* C28, as stated: for every option setting, RetryCount(0) included,
\* verifyWithConfig and AssertNoLeakWithOptions finish without reading a nil
\* diff: what they read after the retry loop is the Diff of a comparison
\* made during the call.
C28_NoNilDiffIsRead ==
    usage \in {"VerifyNone", "Check", "AssertNoLeak"} => gpc # "panic"


(***************************************************************************)
(* examples/worker-pool.                                                   *)
(***************************************************************************)
\* the reader got one result for each submitted task ID and nothing else
OneResultPerTask ==
    /\ Len(received) = pool.n
    /\ \A id \in 1..pool.n :
          Cardinality({i \in DOMAIN received : received[i].TaskID = id}) = 1

AllWorkersExited == \A w \in DOMAIN workers : workers[w].pc = "done"

NoSendOnClosed == \A w \in DOMAIN workers : workers[w].pc # "panic"

\* C26 as stated: with a context that is never cancelled, once the n tasks
\* are submitted and Close is called, the reader that drains Results() to
\* its close has exactly n results, one for each task ID; the results
\* channel is closed only after every worker has exited, and no worker
\* sends on a closed channel.
C26_DrainedResultsAreAllTasks ==
    /\ (cpc = "done" /\ ~ctxDone) => OneResultPerTask
    /\ poolResults.closed => AllWorkersExited
    /\ NoSendOnClosed

\* C26 for a pool that has a worker: with a context that is never
\* cancelled, once the n tasks are submitted and Close is called, the reader
\* that drains Results() to its close has exactly n results, one for each
\* task ID; whatever the pool, the results channel is closed only after
\* every worker has exited, and no worker sends on a closed channel.
C26_DrainedResultsWithWorkers ==
    /\ (cpc = "done" /\ ~ctxDone /\ pool.workers >= 1) => OneResultPerTask
    /\ poolResults.closed => AllWorkersExited
    /\ NoSendOnClosed

\* two workers, two tasks, no cancellation: the reader reached the close of
\* Results() with both results, the second task's first
C26_Witness ==
    /\ cpc = "done"
    /\ ~ctxDone
    /\ pool.workers = 2
    /\ pool.n = 2
    /\ mpc = "closed"
    /\ Len(received) = 2
    /\ received[1].TaskID = 2

\* C30: once the context is cancelled every worker goroutine terminates,
\* and a Close that waits then returns, whatever tasks are pending and
\* whether or not anyone reads Results().
C30_CancelStopsEveryWorker ==
    /\ ctxDone ~> AllWorkersExited
    /\ (ctxDone /\ mpc = "wait") ~> (mpc = "closed")

====
